---- MODULE Spec2Model ----
(***************************************************************************)
(* A model of the Muscato read/target matching pipeline (kshedden/muscato). *)
(* Each stage of the pipeline is a separate program communicating through  *)
(* files; each is modelled by its own group of variables and actions and   *)
(* has its own specification:                                              *)
(*   SpecUniq     muscato_uniqify       (dedup of the sorted read stream)  *)
(*   SpecCombine  muscato_combine_windows (cross-window consolidation)     *)
(*   SpecWin      muscato_window_reads  (per-offset windowed read streams) *)
(*   SpecJoin     muscato_confirm fed with arbitrary input streams         *)
(*   Spec         window_reads -> screen -> sort -> confirm, end to end    *)
(* Bytes are modelled by their ASCII codes, byte strings by sequences.     *)
(***************************************************************************)
EXTENDS Integers, Sequences, FiniteSets, TLC

\* ------------------------------------------------------------------------
\* State
\* ------------------------------------------------------------------------

\* The run's configuration (utils.Config), read by every program.
VARIABLES config

\* muscato_uniqify
VARIABLES
    uqInput,    \* the whole input stream (never changes)
    uqRest,     \* the lines the scanner has not delivered yet
    uqPc,       \* position of main: "start", "loop", "done", "fatal"
    uqSeq,      \* seq: current read sequence
    uqNames,    \* names: names matching the current read sequence
    nseq,       \* running count of input lines
    nunq,       \* running count of emitted records
    uqOut,      \* records written to stdout
    seqinfo     \* the side record written by writeSeqInfo

\* muscato_combine_windows
VARIABLES
    cwPool,     \* the lines of the rmatch_*.txt.sz files, concatenated
    cwDa,       \* da: the lines of sort -u not yet scanned
    cwPc,       \* position of main: "start", "loop", "done"
    cwLines,    \* lines: the lines of the current block
    cwFields,   \* fields: the same lines broken into fields
    cwCurrent,  \* current: the read sequence of the current block
    cwOut       \* lines written to matches.txt.sz

\* The files the pipeline starts from
VARIABLES
    readTable,  \* reads_sorted.txt.sz: the deduplicated, sorted read table
    geneFile    \* the target sequence file, one target per line

\* muscato_window_reads
VARIABLES
    wrRest,     \* the read table lines the scanner has not delivered yet
    wrPc,       \* position of main: "scan", "check", "done", "exit1"
    nread,      \* nread[k]: reads counted for window k
    winFile     \* winFile[k]: the lines written to win_k.txt.sz

\* muscato_screen
VARIABLES
    scPc,       \* position of main: "build", "search", "done", "panic"
    smp,        \* smp[k]: the bits set in the Bloom bitset of window k
    scTodo,     \* the targets (line numbers) whose worker has not run yet
    bmatch      \* bmatch[k]: the lines written to bmatch_k.txt.sz

\* muscato_confirm (one process, verifying window cfWin)
VARIABLES
    cfWin,      \* win: the window this process verifies (1-based)
    cfPc,       \* position of main: "start", "loop", "shutdown", "wait",
                \*   "exit" (normal end), "crash" (ended by a panic)
    cfPanic,    \* main is panicking while its deferred calls run
    source,     \* the breader over win_k_sorted.txt.sz
    match,      \* the breader over smatch_k.txt.sz
    limit,      \* the number of tokens in the limit channel
    workers,    \* the searchpairs goroutines started so far
    rsltChan,   \* the results sent and not yet received
    rsltClosed, \* rsltChan has been closed
    hvPc,       \* the harvest goroutine: "none", "run", "done"
    outBuf,     \* the records written to the output file so far
    rmatch      \* rmatch[k]: rmatch_k.txt.sz, once its process has ended

\* The driver
VARIABLES
    stage,      \* the stage the driver is running
    winSorted,  \* winSorted[k]: win_k_sorted.txt.sz
    smatch      \* smatch[k]: smatch_k.txt.sz

\* The workflow driver (cmd/muscato)
VARIABLES
    wfPc,         \* position of main: "run", "sortByGeneId", "joins", "wfRun",
                  \*   "running", "done", "fatal"
    wfProcs,      \* the stages registered with the workflow
    wfStarted,    \* the stages whose commands have been started
    wfFinished    \* the stages whose commands have ended

\* ------------------------------------------------------------------------
\* Bytes and byte strings
\* ------------------------------------------------------------------------

chTab == 9
chA == 65
chC == 67
chG == 71
chT == 84
chX == 88

\* The bases from which the model draws its input sequences.
Bases == {chA, chC}

Min(a, b) == IF a < b THEN a ELSE b

Range(s) == {s[i] : i \in 1..Len(s)}

\* Go's s[lo:hi] (0-based, hi exclusive) on a sequence.
Slice(s, lo, hi) == [i \in 1..(hi - lo) |-> s[lo + i]]

\* All byte strings over alphabet S of length lo..hi.
SeqsOf(S, lo, hi) == UNION {[1..n -> S] : n \in lo..hi}

\* bytes.Compare: -1, 0 or 1 in lexicographic byte order.
BytesCompare(x, y) ==
    LET n == Min(Len(x), Len(y))
        d == {i \in 1..n : x[i] # y[i]}
    IN IF d = {}
       THEN (IF Len(x) < Len(y) THEN -1 ELSE IF Len(x) > Len(y) THEN 1 ELSE 0)
       ELSE LET k == CHOOSE i \in d : \A j \in d : i <= j
            IN IF x[k] < y[k] THEN -1 ELSE 1

\* A stream of records is sorted by its first field (non-decreasing).
KeySorted(s, key(_)) ==
    \A i \in 1..(Len(s) - 1) : BytesCompare(key(s[i]), key(s[i + 1])) <= 0

RECURSIVE SumSeq(_)
SumSeq(s) == IF Len(s) = 0 THEN 0 ELSE s[1] + SumSeq(Tail(s))

\* strconv.Itoa / fmt %d for n >= 0: the decimal digits of n.
RECURSIVE Itoa(_)
Itoa(n) == IF n < 10 THEN <<48 + n>> ELSE Itoa(n \div 10) \o <<48 + (n % 10)>>

\* strconv.Atoi on a string of decimal digits.
RECURSIVE Atoi(_)
Atoi(s) ==
    IF Len(s) = 0 THEN 0
    ELSE 10 * Atoi(SubSeq(s, 1, Len(s) - 1)) + (s[Len(s)] - 48)

\* fmt %011d: n zero-padded to at least width digits.
RECURSIVE ZeroPad(_, _)
ZeroPad(s, width) == IF Len(s) >= width THEN s ELSE ZeroPad(<<48>> \o s, width)

\* bytes.Split(s, "\t"): the tab-separated fields, empty fields kept.
RECURSIVE SplitTab(_)
SplitTab(s) ==
    IF \A i \in 1..Len(s) : s[i] # chTab THEN <<s>>
    ELSE LET k == CHOOSE i \in 1..Len(s) :
                      s[i] = chTab /\ \A j \in 1..(i - 1) : s[j] # chTab
         IN <<SubSeq(s, 1, k - 1)>> \o SplitTab(SubSeq(s, k + 1, Len(s)))

\* strings.Fields / bytes.Fields: the maximal runs of non-space bytes (the
\* only white space in the streams modelled here is the tab).
Fields(s) == SelectSeq(SplitTab(s), LAMBDA f : Len(f) > 0)

\* The fields joined by tabs: one line of a stream, without its newline.
RECURSIVE JoinTab(_)
JoinTab(fs) ==
    IF Len(fs) = 0 THEN <<>>
    ELSE IF Len(fs) = 1 THEN fs[1]
    ELSE fs[1] \o <<chTab>> \o JoinTab(Tail(fs))

\* Insertion of line x into the bytewise sorted, duplicate-free list s.
RECURSIVE InsertUnique(_, _)
InsertUnique(s, x) ==
    IF Len(s) = 0 THEN <<x>>
    ELSE LET c == BytesCompare(x, s[1]) IN
         IF c = 0 THEN s
         ELSE IF c < 0 THEN <<x>> \o s
         ELSE <<s[1]>> \o InsertUnique(Tail(s), x)

\* Insertion of line x into the bytewise sorted list s.
InsertSorted(s, x) ==
    LET k == Cardinality({i \in 1..Len(s) : BytesCompare(s[i], x) < 0})
    IN SubSeq(s, 1, k) \o <<x>> \o SubSeq(s, k + 1, Len(s))

\* sort -k1 under LC_ALL=C: the key runs from the first field to the end
\* of the line, so the lines come out in bytewise order.
RECURSIVE SortLines(_)
SortLines(s) ==
    IF Len(s) = 0 THEN <<>>
    ELSE InsertSorted(SortLines(SubSeq(s, 1, Len(s) - 1)), s[Len(s)])

\* sort -u under LC_ALL=C: the distinct lines in bytewise order.
RECURSIVE SortUnique(_)
SortUnique(s) ==
    IF Len(s) = 0 THEN <<>>
    ELSE InsertUnique(SortUnique(SubSeq(s, 1, Len(s) - 1)), s[Len(s)])

\* cdiff: the number of positions of x at which y differs (y is indexed by
\* the positions of x).
cdiff(x, y) == Cardinality({i \in 1..Len(x) : x[i] # y[i]})

\* ------------------------------------------------------------------------
\* muscato_uniqify: dedup pass over the sequence-sorted read stream.
\* A read name is modelled by its length in bytes; an input line is
\* [seq |-> bytes, name |-> length of the name].
\* ------------------------------------------------------------------------

MaxUqRecords == 4
MaxUqSeqLen == 1
NameListLimit == 1000
NameListKeep == 996
EllipsisLen == 3

\* Lengths of read names: short names and names long enough to overflow
\* the name-list limit when two or three of them are joined.
NameLens == {1, 499, 500}

\* muscato_prep_reads
VARIABLES
    prFile,     \* the lines of the read file (never changes)
    prPos,      \* the number of lines the scanner has delivered
    prPc,       \* position of source: "idle", "loop", "done"
    prName,     \* ris.Name
    prSeq,      \* ris.Seq
    nskip,      \* nskip: reads skipped for being too short
    prOut       \* the lines written to stdout

\* muscato_screen, goroutine by goroutine
VARIABLES
    bbRest,     \* buildBloom: the read table lines not yet scanned
    wc,         \* wc[k]: the window sequences waiting for worker k
    wcClosed,   \* the channels wc[k] have been closed
    bbWorker,   \* bbWorker[k]: the worker of window k, "run" or "done"
    bbWriters,  \* bbWriters[b]: the workers that have set a bit of smp[b]
    psQueue,    \* psQueue[t]: the sends the worker of target t has ahead
    psRun,      \* the targets whose worker is running
    scLimit,    \* the number of tokens in the limit channel
    hitchan,    \* hitchan[k]: the hits sent and not yet written
    hitClosed,  \* the channels hitchan[k] have been closed
    hvDone      \* the windows whose harvest goroutine has ended

\* The confirm stage of the driver that runs muscato_confirm in rounds
VARIABLES
    coPc,       \* position of confirm: "idle", "loop", "start", "wait",
                \*   "done" (returned), "panic"
    fp,         \* fp: the first window of the current round
    cmds,       \* cmds: the windows whose process this round has started
    coWaited,   \* the number of processes of cmds already waited for
    coProc,     \* coProc[k]: process of window k: "none", "running",
                \*   "exited", "failed"
    coLaunched  \* coLaunched[k]: how many times window k was started

\* muscato_screen: the errors the target workers report
VARIABLES
    errc,       \* errc: the errors sent and not yet received (by target)
    seFail,     \* the targets whose worker meets an error
    seFirst,    \* the first error sent, if any
    seFatal     \* the error search ended the program with, if any

\* muscato_prep_targets
VARIABLES
    ptFile,     \* the lines of the raw target file (never changes)
    ptPos,      \* the number of lines the scanner has delivered
    ptPc,       \* position: "idle", "text", "fasta", "done", "exit0", "panic"
    ptRev,      \* rev: the -rev flag
    ptSeqname,  \* seqname of processFasta
    ptSeq,      \* seq of processFasta
    ptLnum,     \* lnum: the serial of the next target written
    seqout,     \* the lines written to the sequence file
    idout       \* the lines written to the id file

\* muscato_nonmatch
VARIABLES
    nmResults,  \* the lines of the results file (never changes)
    nmReads,    \* the lines of reads_sorted.txt.sz (never changes)
    nmLoc,      \* the bit positions the Bloom filter derives from each key
    nmPc,       \* position: "idle", "build", "scan", "done"
    nmPos,      \* the number of lines the current scanner has delivered
    bf,         \* bf: the bits set in the Bloom filter
    nmOut       \* the lines written to the non-match FASTQ file

\* The joins of the driver with the target and read dictionaries
VARIABLES
    matchesSg,  \* matches_sg.txt.sz: the matches sorted by target id
    geneIdFile, \* the target id file: id, name, length
    jnPc,       \* position: "idle", "genes", "reads", "done"
    matchesSn,  \* matches_sn.txt.sz: the matches with the target names
    results     \* the results file

\* A caller of CountDinuc that reuses its scratch array
VARIABLES
    cdSeq,      \* seq: the window of the last call
    cdWk,       \* wk: the scratch array, as the last call left it
    cdRet,      \* the value the last call returned
    cdCalls     \* the number of calls made

\* The cancel signal of the driver
VARIABLES
    cancelRaised  \* the cancel signal has been raised

\* A caller of breader.Next
VARIABLES
    brInput,    \* the lines of the file the breader reads (never changes)
    brB,        \* b: the breader
    brOk,       \* the value the last call of Next returned
    brCalls,    \* the number of calls of Next made
    brBlocks    \* the blocks b.recs held after the calls that returned true

\* The deferred shutdown of muscato_confirm, token by token
VARIABLES
    cfFill      \* k: the tokens the deferred call of main has put into limit

\* The end of search in muscato_screen, token by token
VARIABLES
    srFill      \* k: the tokens search has put into limit after the scan loop

\* The memory of the blocks handed to the workers of muscato_confirm
VARIABLES
    cpArrs,     \* the backing arrays of the recs slices, in the order they were allocated
    cpCur,      \* the array behind the recs slice of each reader, 0 for the nil slice
    cpWorkers   \* per worker started: the two slices it was given, the blocks at dispatch, what it read

\* The match queue of one window key in best mode
VARIABLES
    hqQ,        \* qvals: the queue qinsert has built
    hqAll       \* the mismatch counts of the matches inserted, in order

uqVars == <<uqInput, uqRest, uqPc, uqSeq, uqNames, nseq, nunq, uqOut, seqinfo>>
cwVars == <<cwPool, cwDa, cwPc, cwLines, cwFields, cwCurrent, cwOut>>

inVars == <<readTable, geneFile>>
wrVars == <<wrRest, wrPc, nread, winFile>>
scVars == <<scPc, smp, scTodo, bmatch>>
drvVars == <<stage, winSorted, smatch>>
wfVars == <<wfPc, wfProcs, wfStarted, wfFinished>>
prVars == <<prFile, prPos, prPc, prName, prSeq, nskip, prOut>>
sfVars == <<bbRest, wc, wcClosed, bbWorker, bbWriters, psQueue, psRun, scLimit,
            hitchan, hitClosed, hvDone>>
seVars == <<errc, seFail, seFirst, seFatal>>
ptVars == <<ptFile, ptPos, ptPc, ptRev, ptSeqname, ptSeq, ptLnum, seqout,
            idout>>
nmVars == <<nmResults, nmReads, nmLoc, nmPc, nmPos, bf, nmOut>>
jnVars == <<matchesSg, geneIdFile, jnPc, matchesSn, results>>
cdVars == <<cdSeq, cdWk, cdRet, cdCalls>>
cnVars == <<cancelRaised>>
brVars == <<brInput, brB, brOk, brCalls, brBlocks>>
sdVars == <<cfFill>>
hfVars == <<srFill>>
cpVars == <<cpArrs, cpCur, cpWorkers>>
hqVars == <<hqQ, hqAll>>
seOthers == <<ptVars, nmVars, jnVars, cdVars, cnVars, brVars, sdVars, hfVars,
              cpVars, hqVars>>
ptOthers == <<seVars, nmVars, jnVars, cdVars, cnVars, brVars, sdVars, hfVars,
              cpVars, hqVars>>
nmOthers == <<seVars, ptVars, jnVars, cdVars, cnVars, brVars, sdVars, hfVars,
              cpVars, hqVars>>
jnOthers == <<seVars, ptVars, nmVars, cdVars, cnVars, brVars, sdVars, hfVars,
              cpVars, hqVars>>
cdOthers == <<seVars, ptVars, nmVars, jnVars, cnVars, brVars, sdVars, hfVars,
              cpVars, hqVars>>
cnOthers == <<seVars, ptVars, nmVars, jnVars, cdVars, brVars, sdVars, hfVars,
              cpVars, hqVars>>
brOthers == <<seVars, ptVars, nmVars, jnVars, cdVars, cnVars, sdVars, hfVars,
              cpVars, hqVars>>
sdOthers == <<seVars, ptVars, nmVars, jnVars, cdVars, cnVars, brVars, hfVars,
              cpVars, hqVars>>
hfOthers == <<seVars, ptVars, nmVars, jnVars, cdVars, cnVars, brVars, sdVars,
              cpVars, hqVars>>
cpOthers == <<seVars, ptVars, nmVars, jnVars, cdVars, cnVars, brVars, sdVars,
              hfVars, hqVars>>
hqOthers == <<seVars, ptVars, nmVars, jnVars, cdVars, cnVars, brVars, sdVars,
              hfVars, cpVars>>
ext2Vars == <<seVars, ptVars, nmVars, jnVars, cdVars, cnVars, brVars, sdVars,
              hfVars, cpVars, hqVars>>
coVars == <<coPc, fp, cmds, coWaited, coProc, coLaunched>>
extVars == <<wfVars, prVars, sfVars, coVars, ext2Vars>>
cfVars == <<cfWin, cfPc, cfPanic, source, match, limit, workers, rsltChan,
            rsltClosed, hvPc, outBuf, rmatch>>

\* Everything but the variables of muscato_uniqify.
notUq == <<config, cwVars, inVars, wrVars, scVars, drvVars, cfVars, extVars>>

\* strings.Join(names, ";"): its length in bytes.
JoinLen(names) ==
    IF Len(names) = 0 THEN 0 ELSE SumSeq(names) + (Len(names) - 1)

\* Mutation of printrow: keeps 1000 bytes of the list before the ellipsis.
printrowKeepsLimit(seq, names) ==
    [seq |-> seq,
     mult |-> Len(names),
     nalen |-> IF JoinLen(names) > NameListLimit
               THEN NameListLimit + EllipsisLen
               ELSE JoinLen(names)]

\* printrow: the output record for one run of equal sequences.
printrow(seq, names) ==
    [seq |-> seq,
     mult |-> Len(names),
     nalen |-> IF JoinLen(names) > NameListLimit
               THEN NameListKeep + EllipsisLen
               ELSE JoinLen(names)]

Identity(x) == x

UqIdle ==
    /\ uqInput = <<>> /\ uqRest = <<>> /\ uqPc = "idle"
    /\ uqSeq = <<>> /\ uqNames = <<>> /\ nseq = 0 /\ nunq = 0
    /\ uqOut = <<>> /\ seqinfo = <<>>

\* The input is any stream of at most MaxUqRecords lines sorted by sequence.
UqInit ==
    /\ \E n \in 0..MaxUqRecords :
         \E ss \in [1..n -> SeqsOf(Bases, 1, MaxUqSeqLen)] :
            /\ KeySorted(ss, Identity)
            /\ \E nn \in [1..n -> NameLens] :
                 uqInput = [i \in 1..n |-> [seq |-> ss[i], name |-> nn[i]]]
    /\ uqRest = uqInput
    /\ uqPc = "start"
    /\ uqSeq = <<>> /\ uqNames = <<>> /\ nseq = 0 /\ nunq = 0
    /\ uqOut = <<>> /\ seqinfo = <<>>

\* The first scanner.Scan(): no input is fatal.
UqNoInput ==
    /\ uqPc = "start" /\ uqRest = <<>>
    /\ uqPc' = "fatal"
    /\ UNCHANGED <<uqInput, uqRest, uqSeq, uqNames, nseq, nunq, uqOut, seqinfo, notUq>>

\* The first line primes seq and names.
UqPrime ==
    /\ uqPc = "start" /\ uqRest # <<>>
    /\ uqSeq' = Head(uqRest).seq
    /\ uqNames' = <<Head(uqRest).name>>
    /\ uqRest' = Tail(uqRest)
    /\ uqPc' = "loop"
    /\ UNCHANGED <<uqInput, nseq, nunq, uqOut, seqinfo, notUq>>

\* One iteration of the dedup loop.
UqScan ==
    /\ uqPc = "loop" /\ uqRest # <<>>
    /\ LET toks == Head(uqRest) IN
         /\ nseq' = nseq + 1
         /\ IF BytesCompare(toks.seq, uqSeq) # 0
            THEN /\ uqOut' = Append(uqOut, printrow(uqSeq, uqNames))
                 /\ nunq' = nunq + 1
                 /\ uqSeq' = toks.seq
                 /\ uqNames' = <<toks.name>>
            ELSE /\ uqNames' = Append(uqNames, toks.name)
                 /\ UNCHANGED <<uqOut, nunq, uqSeq>>
    /\ uqRest' = Tail(uqRest)
    /\ UNCHANGED <<uqInput, uqPc, seqinfo, notUq>>

\* End of input: the last run is printed and the side record written.
UqFinish ==
    /\ uqPc = "loop" /\ uqRest = <<>>
    /\ uqOut' = Append(uqOut, printrow(uqSeq, uqNames))
    /\ nunq' = nunq + 1
    /\ seqinfo' = [NumUnique |-> nunq + 1, NumTotal |-> nseq]
    /\ uqPc' = "done"
    /\ UNCHANGED <<uqInput, uqRest, uqSeq, uqNames, nseq, notUq>>


\* ------------------------------------------------------------------------
\* muscato_combine_windows: sort -u over the verified streams of all
\* windows, then a filter on each block of lines with the same read.
\* ------------------------------------------------------------------------

MaxCwRecords == 3
MaxMMTol == 1

\* The line searchpairs writes for a confirmed match (without its newline):
\* read, aligned target, target offset, mismatches, target id.
MatchLine(readseq, taligned, toff, nx, mgene) ==
    JoinTab(<<readseq, taligned, Itoa(toff), Itoa(nx), mgene>>)

\* harvest writes the target number with %011d.
GeneId(tnum) == ZeroPad(Itoa(tnum), 11)

\* The reads of the verified matches fed to the consolidator: one read is
\* a proper prefix of the other.
CwReads == {<<chA>>, <<chA, chC>>}

\* The verified match lines the model feeds to the consolidator: a read,
\* an aligned target of the same length, and their number of mismatches.
CwUniverse ==
    UNION {{MatchLine(r, t, 0, cdiff(r, t), GeneId(0)) :
               t \in SeqsOf(Bases, Len(r), Len(r))} : r \in CwReads}

\* Mutation of writebest: keeps only lines strictly below best+mmtol.
writebestStrict(lines, bfr, mmtol) ==
    LET ibuf == [i \in 1..Len(bfr) |-> Atoi(bfr[i][4])]
        best == IF Len(ibuf) = 0 THEN -1
                ELSE CHOOSE y \in Range(ibuf) : \A z \in Range(ibuf) : y <= z
        keep == {i \in 1..Len(lines) : ibuf[i] < best + mmtol}
    IN SelectSeq([i \in 1..Len(lines) |-> <<i, lines[i]>>],
                 LAMBDA e : e[1] \in keep)

\* Mutation of writebest: the first of the lines it would write is left out.
writebestButFirst(lines, bfr, mmtol) ==
    LET ibuf == [i \in 1..Len(bfr) |-> Atoi(bfr[i][4])]
        best == IF Len(ibuf) = 0 THEN -1
                ELSE CHOOSE y \in Range(ibuf) : \A z \in Range(ibuf) : y <= z
        keep == {i \in 1..Len(lines) : ibuf[i] <= best + mmtol}
        w == SelectSeq([i \in 1..Len(lines) |-> <<i, lines[i]>>],
                       LAMBDA e : e[1] \in keep)
    IN SubSeq(w, 2, Len(w))

\* writebest: the lines of a block it writes, each paired with its index
\* in the block: those with at most mmtol more mismatches than the best.
writebest(lines, bfr, mmtol) ==
    LET ibuf == [i \in 1..Len(bfr) |-> Atoi(bfr[i][4])]
        best == IF Len(ibuf) = 0 THEN -1
                ELSE CHOOSE y \in Range(ibuf) : \A z \in Range(ibuf) : y <= z
        keep == {i \in 1..Len(lines) : ibuf[i] <= best + mmtol}
    IN SelectSeq([i \in 1..Len(lines) |-> <<i, lines[i]>>],
                 LAMBDA e : e[1] \in keep)

\* The lines writebest writes, in order.
Written(lines, bfr, mmtol) ==
    LET w == writebest(lines, bfr, mmtol) IN [i \in 1..Len(w) |-> w[i][2]]

\* The grouping loop of main from the sorted stream da on, with the block
\* gathered so far, and the final block at the end of the stream: the
\* lines written.
RECURSIVE CombineLoop(_, _, _, _, _)
CombineLoop(da, lines, fields, current, mmtol) ==
    IF da = <<>> THEN Written(lines, fields, mmtol)
    ELSE LET line == Head(da)
             field == Fields(line)
         IN IF current = <<>> \/ field[1] = current
            THEN CombineLoop(Tail(da), Append(lines, line), Append(fields, field),
                             field[1], mmtol)
            ELSE Written(lines, fields, mmtol)
                 \o CombineLoop(Tail(da), <<line>>, <<field>>, field[1], mmtol)

\* A whole run of muscato_combine_windows over the lines of its inputs.
CombineWindows(pool, mmtol) == CombineLoop(SortUnique(pool), <<>>, <<>>, <<>>, mmtol)

\* Everything but the variables of muscato_combine_windows.
notCw == <<uqVars, inVars, wrVars, scVars, drvVars, cfVars, extVars>>

CwIdle ==
    /\ cwPool = <<>> /\ cwDa = <<>> /\ cwPc = "idle" /\ cwLines = <<>>
    /\ cwFields = <<>> /\ cwCurrent = <<>> /\ cwOut = <<>>

CwInit ==
    /\ \E n \in 0..MaxCwRecords : cwPool \in [1..n -> CwUniverse]
    /\ cwDa = <<>> /\ cwPc = "start" /\ cwLines = <<>>
    /\ cwFields = <<>> /\ cwCurrent = <<>> /\ cwOut = <<>>

\* The decompressed streams are piped through sort -u.
CwSort ==
    /\ cwPc = "start"
    /\ cwDa' = SortUnique(cwPool)
    /\ cwPc' = "loop"
    /\ UNCHANGED <<cwPool, cwLines, cwFields, cwCurrent, cwOut, config, notCw>>

\* One iteration of the grouping loop: the line joins the current block,
\* or the block is processed and the line starts the next one.
CwScan ==
    /\ cwPc = "loop" /\ cwDa # <<>>
    /\ LET line == Head(cwDa)
           field == Fields(line)
       IN IF cwCurrent = <<>> \/ field[1] = cwCurrent
          THEN /\ cwLines' = Append(cwLines, line)
               /\ cwFields' = Append(cwFields, field)
               /\ cwCurrent' = field[1]
               /\ UNCHANGED cwOut
          ELSE /\ cwOut' = cwOut \o Written(cwLines, cwFields, config.MMTol)
               /\ cwLines' = <<line>>
               /\ cwFields' = <<field>>
               /\ cwCurrent' = field[1]
    /\ cwDa' = Tail(cwDa)
    /\ UNCHANGED <<cwPool, cwPc, config, notCw>>

\* End of the sorted stream: the final block is processed.
CwFinish ==
    /\ cwPc = "loop" /\ cwDa = <<>>
    /\ cwOut' = cwOut \o Written(cwLines, cwFields, config.MMTol)
    /\ cwPc' = "done"
    /\ UNCHANGED <<cwPool, cwDa, cwLines, cwFields, cwCurrent, config, notCw>>


\* ------------------------------------------------------------------------
\* The entropy gate (utils.CountDinuc)
\* ------------------------------------------------------------------------

\* The class of a base: A, T, G, C, other.
DinucClass(x) ==
    IF x = chA THEN 0
    ELSE IF x = chT THEN 1
    ELSE IF x = chG THEN 2
    ELSE IF x = chC THEN 3
    ELSE 4

\* The loop of CountDinuc from position i on: wk counts the ordered pairs
\* seen so far and n the distinct ones.
RECURSIVE DinucLoop(_, _, _, _, _)
DinucLoop(seq, i, last, wk, n) ==
    IF i > Len(seq) THEN n
    ELSE LET v == DinucClass(seq[i])
             k == 5 * last + v
         IN IF i > 1
            THEN DinucLoop(seq, i + 1, v, [wk EXCEPT ![k + 1] = @ + 1],
                           IF wk[k + 1] = 0 THEN n + 1 ELSE n)
            ELSE DinucLoop(seq, i + 1, v, wk, n)

\* A count of the bases of the sequence, in place of its distinct pairs.
CountBases(seq, wk) == Len(seq)

MaxCdCalls == 2
MaxCdLen == 4

\* The pairs counted on the scratch array as the caller left it.
CountDinucKeepWk(seq, wk) == DinucLoop(seq, 1, 0, wk, 0)

\* CountDinuc: the scratch array is zeroed, then the pairs are counted.
CountDinuc(seq, wk) == DinucLoop(seq, 1, 0, [i \in DOMAIN wk |-> 0], 0)

\* The scratch array callers allocate with make([]int, 25).
NewWk == [i \in 1..25 |-> 0]

\* ------------------------------------------------------------------------
\* The pipeline's inputs
\* ------------------------------------------------------------------------

MaxReads == 1
MaxTargets == 1

\* The read sequences and the target sequences the model draws from.
ReadSeqs == SeqsOf(Bases, 2, 3)
TargetSeqs == SeqsOf(Bases, 1, 4)

\* A line of the read table: sequence, multiplicity, name list.
ReadLine(seq) == JoinTab(<<seq, Itoa(1), <<chX>>>>)

\* The read table is sorted by sequence and holds each sequence once.
InInit ==
    /\ \E n \in 0..MaxReads :
         \E rs \in [1..n -> ReadSeqs] :
            /\ \A i \in 1..(n - 1) : BytesCompare(rs[i], rs[i + 1]) < 0
            /\ readTable = [i \in 1..n |-> ReadLine(rs[i])]
    /\ \E n \in 1..MaxTargets : geneFile \in [1..n -> TargetSeqs]

InIdle == readTable = <<>> /\ geneFile = <<>>

\* ------------------------------------------------------------------------
\* muscato_window_reads: one windowed read stream per configured offset
\* ------------------------------------------------------------------------

\* Everything but the variables of muscato_window_reads.
notWr == <<config, inVars, uqVars, cwVars, scVars, drvVars, cfVars, extVars>>

\* The windows of one read, from window k on: the loop over the windows
\* in the body of the scan loop. st is [nread, winFile].
RECURSIVE WrWindows(_, _, _)
WrWindows(seq, k, st) ==
    IF k > Len(config.Windows) THEN st
    ELSE LET q1 == config.Windows[k]
             q2 == q1 + config.WindowWidth
         IN IF Len(seq) < q2 THEN WrWindows(seq, k + 1, st)
            ELSE LET counted == [st EXCEPT !.nread[k] = @ + 1]
                     key == Slice(seq, q1, q2)
                 IN IF CountDinuc(key, NewWk) < config.MinDinuc
                    THEN WrWindows(seq, k + 1, counted)
                    ELSE WrWindows(seq, k + 1,
                           [counted EXCEPT !.winFile[k] =
                              Append(@, JoinTab(<<key, Slice(seq, 0, q1),
                                                  Slice(seq, q2, Len(seq))>>))])

WrIdle ==
    /\ wrRest = <<>> /\ wrPc = "idle" /\ nread = <<>> /\ winFile = <<>>

WrInit ==
    /\ wrRest = readTable
    /\ wrPc = "scan"
    /\ nread = [k \in 1..Len(config.Windows) |-> 0]
    /\ winFile = [k \in 1..Len(config.Windows) |-> <<>>]

\* One iteration of the scan loop: one read, all windows.
WrScan ==
    /\ wrPc = "scan" /\ wrRest # <<>>
    /\ LET seq == Fields(Head(wrRest))[1]
           st == WrWindows(seq, 1, [nread |-> nread, winFile |-> winFile])
       IN /\ nread' = st.nread
          /\ winFile' = st.winFile
    /\ wrRest' = Tail(wrRest)
    /\ UNCHANGED <<wrPc, notWr>>

\* End of the read table: a window that counted no read ends the run.
WrCheck ==
    /\ wrPc = "scan" /\ wrRest = <<>>
    /\ wrPc' = IF \E k \in 1..Len(nread) : nread[k] = 0 THEN "exit1" ELSE "done"
    /\ UNCHANGED <<wrRest, nread, winFile, notWr>>


\* ------------------------------------------------------------------------
\* muscato_screen: Bloom sketch of the read windows, then a scan of every
\* target for windows that probe as present.
\* ------------------------------------------------------------------------

\* Everything but the variables of muscato_screen.
notSc == <<config, inVars, uqVars, cwVars, wrVars, drvVars, cfVars, extVars>>

\* The span the first window of a target is cut from.
FirstWindowSpan == 100

\* tables[j][b]: the base hash value of byte b in hash j (genTables fills
\* each table with distinct values).
HashTable(j, b) == (b \div 2) + j

\* The sum of hash j over a window: a function of the window's bytes
\* alone, whether they were written at once or rolled in one by one.  The
\* sums and the target positions of the model stay far below 2^32, where
\* the 32-bit values of the code would wrap.
RECURSIVE HashSum(_, _, _)
HashSum(j, win, i) ==
    IF i > Len(win) THEN 0
    ELSE HashTable(j, win[i]) * i + HashSum(j, win, i + 1)

Sum32(j, win) == HashSum(j, win, 1)

\* The bit positions of a window in a Bloom bitset.
BloomBits(win) == {Sum32(j, win) % config.BloomSize : j \in 1..config.NumHash}

\* Mutation of BloomKeys: a read that ends with the window is taken to be
\* too short.
BloomKeysShort(k) ==
    LET q1 == config.Windows[k]
        q2 == q1 + config.WindowWidth
        seqs == {Fields(readTable[i])[1] : i \in 1..Len(readTable)}
    IN {Slice(seq, q1, q2) :
          seq \in {x \in seqs : /\ ~(q2 >= Len(x))
                                /\ ~(CountDinuc(Slice(x, q1, q2), NewWk) < config.MinDinuc)}}

\* The windows of one read that pass the length test and the entropy gate:
\* what buildBloom sends to the worker of window k.
BloomKeys(k) ==
    LET q1 == config.Windows[k]
        q2 == q1 + config.WindowWidth
        seqs == {Fields(readTable[i])[1] : i \in 1..Len(readTable)}
    IN {Slice(seq, q1, q2) :
          seq \in {x \in seqs : /\ ~(q2 > Len(x))
                                /\ ~(CountDinuc(Slice(x, q1, q2), NewWk) < config.MinDinuc)}}

\* buildBloom: the bitset of window k once every worker has finished.
buildBloom(k) == UNION {BloomBits(seqw) : seqw \in BloomKeys(k)}

\* Mutation of checkWin: the probe stops at the first filter that holds
\* the window.
checkWinFirst(win) ==
    LET hit == {k \in 1..Len(smp) : BloomBits(win) \subseteq smp[k]}
    IN IF hit = {} THEN <<>>
       ELSE <<CHOOSE k \in hit : \A k2 \in hit : k <= k2>>

\* checkWin: the indices of the Bloom filters all of whose hash bits are
\* set for the window, in increasing order.
checkWin(win) ==
    LET hit == {k \in 1..Len(smp) : BloomBits(win) \subseteq smp[k]}
    IN SelectSeq([k \in 1..Len(smp) |-> k], LAMBDA k : k \in hit)

\* The bounds of a Go slice expression s[lo:hi] are in range.
SliceOk(s, lo, hi) == 0 <= lo /\ lo <= hi /\ hi <= Len(s)

\* Stands for a slice expression out of range, which ends the program.
PanicRec ==
    [mseq |-> <<>>, left |-> <<>>, right |-> <<>>, tnum |-> 0, pos |-> 0,
     panic |-> TRUE]

\* The hit processSeq sends for window i when the first window of the
\* target probes as present: none unless the window's offset is 0.
FirstWindowHit(seq, genenum, i) ==
    LET hlen == config.WindowWidth
        q1 == config.Windows[i]
        q2 == q1 + config.WindowWidth
        jz == Min(FirstWindowSpan - q2, Len(seq))
    IN IF q1 # 0 THEN <<>>
       ELSE IF ~SliceOk(seq, hlen, jz) THEN <<PanicRec>>
       ELSE <<[mseq |-> Slice(seq, 0, hlen), left |-> <<>>,
               right |-> Slice(seq, hlen, jz), tnum |-> genenum, pos |-> 0,
               panic |-> FALSE]>>

\* Mutation of RollHit: the position reported is the window's last byte.
RollHitEndPos(seq, genenum, i, j) ==
    LET hlen == config.WindowWidth
        q1 == config.Windows[i]
        q2 == q1 + config.WindowWidth
        jx == j - hlen + 1
        jy == j + 1
        jw == jx - q1
        jz == Min(jy + config.MaxReadLength - q2, Len(seq))
    IN IF j < q2 - 1 THEN <<>>
       ELSE IF jw >= 0
       THEN IF ~SliceOk(seq, jy, jz) THEN <<PanicRec>>
            ELSE <<[mseq |-> Slice(seq, jx, jy), left |-> Slice(seq, jw, jx),
                    right |-> Slice(seq, jy, jz), tnum |-> genenum,
                    pos |-> j, panic |-> FALSE]>>
       ELSE <<>>

\* The hit processSeq sends for window i when the window ending at byte j
\* of the target probes as present.
RollHit(seq, genenum, i, j) ==
    LET hlen == config.WindowWidth
        q1 == config.Windows[i]
        q2 == q1 + config.WindowWidth
        jx == j - hlen + 1
        jy == j + 1
        jw == jx - q1
        jz == Min(jy + config.MaxReadLength - q2, Len(seq))
    IN IF j < q2 - 1 THEN <<>>
       ELSE IF jw >= 0
       THEN IF ~SliceOk(seq, jy, jz) THEN <<PanicRec>>
            ELSE <<[mseq |-> Slice(seq, jx, jy), left |-> Slice(seq, jw, jx),
                    right |-> Slice(seq, jy, jz), tnum |-> genenum,
                    pos |-> j - hlen + 1, panic |-> FALSE]>>
       ELSE <<>>

\* The hits of the rolling loop of processSeq for window i: one for every
\* byte j from hlen on whose window probes as present and is far enough
\* into the target, in the order of j.
RollLoop(seq, genenum, i) ==
    LET hlen == config.WindowWidth
        js == {j \in hlen..(Len(seq) - 1) :
                 /\ i \in Range(checkWin(Slice(seq, j - hlen + 1, j + 1)))
                 /\ RollHit(seq, genenum, i, j) # <<>>}
        nth(n) == CHOOSE j \in js : Cardinality({x \in js : x <= j}) = n
    IN [n \in 1..Cardinality(js) |-> RollHit(seq, genenum, i, nth(n))[1]]

\* processSeq: the hits one target sends to hitchan[i], in order.
processSeq(seq, genenum, i) ==
    LET hlen == config.WindowWidth IN
    IF Len(seq) < hlen THEN <<>>
    ELSE (IF i \in Range(checkWin(Slice(seq, 0, hlen)))
          THEN FirstWindowHit(seq, genenum, i) ELSE <<>>)
         \o RollLoop(seq, genenum, i)

\* harvest: the line written for a hit.
HitLine(r) ==
    JoinTab(<<r.mseq, r.left, r.right, ZeroPad(Itoa(r.tnum), 11), Itoa(r.pos)>>)

ScIdle ==
    /\ scPc = "idle" /\ smp = <<>> /\ scTodo = {} /\ bmatch = <<>>

ScInit ==
    /\ scPc = "build"
    /\ smp = [k \in 1..Len(config.Windows) |-> {}]
    /\ scTodo = 1..Len(geneFile)
    /\ bmatch = [k \in 1..Len(config.Windows) |-> <<>>]

\* buildBloom: every read window that passes the gate is inserted; the
\* workers are waited for before the search starts.
ScBuildBloom ==
    /\ stage = "screen" /\ scPc = "build"
    /\ smp' = [k \in 1..Len(config.Windows) |-> buildBloom(k)]
    /\ scPc' = "search"
    /\ UNCHANGED <<scTodo, bmatch, notSc>>

\* The worker of one target runs; the workers of different targets run
\* in any order.  Target line t has the number t-1.
ScProcessSeq ==
    /\ stage = "screen" /\ scPc = "search"
    /\ \E t \in scTodo :
         LET seq == SplitTab(geneFile[t])[1]
             hits == [k \in 1..Len(config.Windows) |-> processSeq(seq, t - 1, k)]
         IN /\ scTodo' = scTodo \ {t}
            /\ IF \E k \in 1..Len(hits) : \E n \in 1..Len(hits[k]) : hits[k][n].panic
               THEN scPc' = "panic" /\ UNCHANGED bmatch
               ELSE /\ bmatch' = [k \in 1..Len(bmatch) |->
                          bmatch[k] \o [n \in 1..Len(hits[k]) |-> HitLine(hits[k][n])]]
                    /\ UNCHANGED scPc
    /\ UNCHANGED <<smp, notSc>>

\* Every worker has finished: the hit channels are closed and the
\* writers end.
ScFinish ==
    /\ stage = "screen" /\ scPc = "search" /\ scTodo = {}
    /\ scPc' = "done"
    /\ UNCHANGED <<smp, scTodo, bmatch, notSc>>

\* ------------------------------------------------------------------------
\* muscato_confirm: block-wise merge join of the windowed reads and the
\* candidate hits of one window, and the all-pairs check of each joined
\* pair of blocks.
\* ------------------------------------------------------------------------

notCf == <<config, inVars, uqVars, cwVars, wrVars, scVars, extVars>>

\* Number of simultaneous goroutines.
concurrency == 100

\* A record of a stream: the line and its tab-separated fields.
NewRec(line) == [buf |-> line, fields |-> SplitTab(line)]

\* A breader over the lines of a file.  stash and last hold at most one
\* record each.
NewBreader(lines, name) ==
    [scanner |-> lines, recs |-> <<>>, stash |-> <<>>, done |-> FALSE,
     lnum |-> 0, name |-> name, last |-> <<>>]

\* The scan loop of breader.Next from iteration ii on.  The result is the
\* breader, the value returned and whether the sort check panicked.
RECURSIVE NextLoop(_, _)
NextLoop(b, ii) ==
    IF b.scanner = <<>>
    THEN [b |-> [b EXCEPT !.done = TRUE], ok |-> TRUE, panic |-> FALSE]
    ELSE LET rx == NewRec(Head(b.scanner))
             b1 == [b EXCEPT !.scanner = Tail(@), !.lnum = @ + 1]
         IN IF Len(b1.recs) > 0 /\ b1.recs[1].fields[1] # rx.fields[1]
            THEN [b |-> [b1 EXCEPT !.stash = <<rx>>], ok |-> TRUE, panic |-> FALSE]
            ELSE IF ii > 0 /\ BytesCompare(b1.last[1].fields[1], rx.fields[1]) > 0
            THEN [b |-> b1, ok |-> FALSE, panic |-> TRUE]
            ELSE NextLoop([b1 EXCEPT !.last = <<rx>>, !.recs = Append(@, rx)], ii + 1)

\* Next with the stashed record forgotten.
BreaderNextNoStash(b) ==
    IF b.done THEN [b |-> b, ok |-> FALSE, panic |-> FALSE]
    ELSE NextLoop([b EXCEPT !.recs = <<>>, !.stash = <<>>], 0)

\* breader.Next: advances the breader to the next block.
BreaderNext(b) ==
    IF b.done THEN [b |-> b, ok |-> FALSE, panic |-> FALSE]
    ELSE NextLoop([b EXCEPT !.recs = b.stash, !.stash = <<>>], 0)

\* Mutation of AllowedMismatches: PMatch taken for the share of
\* mismatches.
AllowedMismatchesOfPMatch(n) ==
    (config.PMatch.num * n) \div config.PMatch.den

\* Allowed number of mismatches for a read of n bases: the product
\* (1 - PMatch) * n truncated to an integer.  PMatch is the fraction
\* PMatch.num / PMatch.den.
AllowedMismatches(n) ==
    ((config.PMatch.den - config.PMatch.num) * n) \div config.PMatch.den

\* q with the entries at the 0-based positions ii and jj exchanged.
HeapSwap(q, ii, jj) == [q EXCEPT ![ii + 1] = q[jj + 1], ![jj + 1] = q[ii + 1]]

\* The sift-up loop of qinsert for the node at 0-based position ii.
RECURSIVE SiftUp(_, _)
SiftUp(q, ii) ==
    IF ii > 0
    THEN LET jj == (ii - 1) \div 2 IN
         IF q[jj + 1].mismatch > q[ii + 1].mismatch
         THEN SiftUp(HeapSwap(q, ii, jj), jj)
         ELSE q
    ELSE q

\* qinsert without the sift-up loop: a stays where it was appended.
qinsertNoSift(q, a) ==
    LET q1 == Append(q, a)
    IN IF Len(q1) > config.MaxMatches THEN SubSeq(q1, 1, config.MaxMatches) ELSE q1

\* qinsert: a is appended and sifted up, then the array is cut to
\* MaxMatches entries.
qinsert(q, a) ==
    LET q1 == SiftUp(Append(q, a), Len(q))
    IN IF Len(q1) > config.MaxMatches THEN SubSeq(q1, 1, config.MaxMatches) ELSE q1

\* The check of one (candidate hit, windowed read) pair in searchpairs:
\* no entry if the pair is rejected, else the match found.
CheckPair(mrec, srec) ==
    LET mtag == mrec.fields[1]
        mlft == mrec.fields[2]
        mrgt == mrec.fields[3]
        mgene == mrec.fields[4]
        mpos == mrec.fields[5]
        stag == srec.fields[1]
        slft == srec.fields[2]
        srgt == srec.fields[3]
        nmiss == AllowedMismatches(Len(stag) + Len(slft) + Len(srgt))
        mk == Len(srgt)
        nx == cdiff(mlft, slft) + cdiff(Slice(mrgt, 0, mk), srgt)
        mposi == Atoi(mpos)
    IN IF Len(srgt) > Len(mrgt) THEN <<>>
       ELSE IF nx > nmiss THEN <<>>
       ELSE <<[mismatch |-> nx,
               gob |-> MatchLine(slft \o stag \o srgt,
                                 mlft \o mtag \o Slice(mrgt, 0, mk),
                                 mposi - Len(mlft), nx, mgene)]>>

\* The nested loops of searchpairs from pair (mi, si) on, with the matches
\* qvals kept so far.
RECURSIVE SearchLoop(_, _, _, _, _)
SearchLoop(src, mat, mi, si, qvals) ==
    IF mi > Len(mat) THEN qvals
    ELSE IF si > Len(src) THEN SearchLoop(src, mat, mi + 1, 1, qvals)
    ELSE LET found == CheckPair(mat[mi], src[si]) IN
         IF found = <<>> THEN SearchLoop(src, mat, mi, si + 1, qvals)
         ELSE IF config.MatchMode = "first"
         THEN LET q1 == Append(qvals, found[1]) IN
              IF Len(q1) > config.MaxMatches THEN q1
              ELSE SearchLoop(src, mat, mi, si + 1, q1)
         ELSE SearchLoop(src, mat, mi, si + 1, qinsert(qvals, found[1]))

\* searchpairs: the matches a worker sends for a reads-block and a
\* targets-block, in the order it sends them.
searchpairs(src, mat) ==
    LET qvals == SearchLoop(src, mat, 1, 1, <<>>)
    IN [i \in 1..Len(qvals) |-> qvals[i].gob]

\* A copy of the first record of a block only.
rcpyHead(r) == [j \in 1..Min(Len(r), 1) |-> NewRec(r[j].buf)]

\* rcpy: a deep copy of a block.
rcpy(r) == [j \in 1..Len(r) |-> NewRec(r[j].buf)]

CfIdle ==
    /\ cfWin = 0 /\ cfPc = "idle" /\ cfPanic = FALSE
    /\ source = <<>> /\ match = <<>> /\ limit = 0 /\ workers = <<>>
    /\ rsltChan = <<>> /\ rsltClosed = FALSE /\ hvPc = "none"
    /\ outBuf = <<>> /\ rmatch = <<>>

\* The state of a muscato_confirm process for window k when main has
\* opened its files and made its channels.
CfBegin(k, srcLines, matLines) ==
    /\ cfWin' = k /\ cfPc' = "start" /\ cfPanic' = FALSE
    /\ source' = NewBreader(srcLines, "source")
    /\ match' = NewBreader(matLines, "match")
    /\ limit' = 0 /\ workers' = <<>>
    /\ rsltChan' = <<>> /\ rsltClosed' = FALSE /\ hvPc' = "none"
    /\ outBuf' = <<>>

\* The first call of Next on each reader; then the harvest goroutine is
\* started and the merge loop entered.
CfStart ==
    /\ stage = "confirm" /\ cfPc = "start"
    /\ LET rs == BreaderNext(source)
           rm == IF rs.panic THEN [b |-> match, ok |-> FALSE, panic |-> FALSE]
                 ELSE BreaderNext(match)
       IN /\ source' = rs.b
          /\ match' = rm.b
          /\ IF rs.panic \/ rm.panic
             THEN cfPanic' = TRUE /\ cfPc' = "shutdown" /\ UNCHANGED hvPc
             ELSE IF ~(rs.ok \/ rm.ok)
             THEN cfPc' = "shutdown" /\ UNCHANGED <<cfPanic, hvPc>>
             ELSE cfPc' = "loop" /\ hvPc' = "run" /\ UNCHANGED cfPanic
    /\ UNCHANGED <<cfWin, limit, workers, rsltChan, rsltClosed, outBuf, rmatch,
                   drvVars, notCf>>

\* Mutation of LimitHasRoom: the send never waits.
LimitNeverFull == TRUE

\* The send limit <- true can proceed: the channel is not full.
LimitHasRoom == limit < concurrency

\* One iteration of the merge loop.  Reading the key of an empty block is
\* an index out of range.  Equal keys: a token is put into limit, a worker
\* is started on copies of the two blocks and both readers advance; else
\* the reader that is behind advances.
CfLoop ==
    /\ stage = "confirm" /\ cfPc = "loop"
    /\ IF Len(source.recs) = 0 \/ Len(match.recs) = 0
       THEN /\ cfPanic' = TRUE /\ cfPc' = "shutdown"
            /\ UNCHANGED <<source, match, limit, workers>>
       ELSE LET s == source.recs[1].fields[1]
                m == match.recs[1].fields[1]
                c == BytesCompare(s, m)
                rs == IF c <= 0 THEN BreaderNext(source)
                      ELSE [b |-> source, ok |-> TRUE, panic |-> FALSE]
                rm == IF (c = 0 /\ ~rs.panic) \/ c > 0 THEN BreaderNext(match)
                      ELSE [b |-> match, ok |-> TRUE, panic |-> FALSE]
            IN /\ c = 0 => LimitHasRoom
               /\ IF c = 0
                  THEN /\ limit' = limit + 1
                       /\ workers' = Append(workers,
                             [source |-> rcpy(source.recs), match |-> rcpy(match.recs),
                              pending |-> searchpairs(rcpy(source.recs), rcpy(match.recs)),
                              state |-> "run"])
                  ELSE UNCHANGED <<limit, workers>>
               /\ source' = rs.b
               /\ match' = rm.b
               /\ IF rs.panic \/ rm.panic
                  THEN cfPanic' = TRUE /\ cfPc' = "shutdown"
                  ELSE /\ UNCHANGED cfPanic
                       /\ cfPc' = IF c = 0 THEN (IF ~(rs.ok \/ rm.ok) THEN "shutdown" ELSE "loop")
                                  ELSE IF c < 0 THEN (IF ~rs.ok THEN "shutdown" ELSE "loop")
                                  ELSE (IF ~rm.ok THEN "shutdown" ELSE "loop")
    /\ UNCHANGED <<cfWin, rsltChan, rsltClosed, hvPc, outBuf, rmatch, drvVars, notCf>>

\* A worker sends its next match on rsltChan.
WkSend ==
    /\ stage = "confirm"
    /\ \E w \in 1..Len(workers) :
         /\ workers[w].state = "run"
         /\ workers[w].pending # <<>>
         /\ Len(rsltChan) < 5 * concurrency
         /\ rsltChan' = Append(rsltChan, Head(workers[w].pending))
         /\ workers' = [workers EXCEPT ![w].pending = Tail(@)]
    /\ UNCHANGED <<cfWin, cfPc, cfPanic, source, match, limit, rsltClosed, hvPc,
                   outBuf, rmatch, drvVars, notCf>>

\* The deferred call of a worker forgotten: the token stays in limit.
ReleaseNothing(n) == n

\* defer func() { <-limit }(): limit after the worker has taken one token
\* out of the n it holds.
Release(n) == n - 1

\* A worker that has sent everything returns: its deferred call takes a
\* token out of limit.  Workers with nothing left to send differ in nothing
\* the program can observe, so the one started first is taken to return
\* first.
WkExit ==
    /\ stage = "confirm"
    /\ \E w \in 1..Len(workers) :
         /\ workers[w].state = "run"
         /\ workers[w].pending = <<>>
         /\ \A v \in 1..(w - 1) :
              ~(workers[v].state = "run" /\ workers[v].pending = <<>>)
         /\ limit > 0
         /\ limit' = Release(limit)
         /\ workers' = [workers EXCEPT ![w].state = "done"]
    /\ UNCHANGED <<cfWin, cfPc, cfPanic, source, match, rsltChan, rsltClosed, hvPc,
                   outBuf, rmatch, drvVars, notCf>>

\* The harvest goroutine writes the next result.
HvWrite ==
    /\ stage = "confirm" /\ hvPc = "run" /\ rsltChan # <<>>
    /\ outBuf' = Append(outBuf, Head(rsltChan))
    /\ rsltChan' = Tail(rsltChan)
    /\ UNCHANGED <<cfWin, cfPc, cfPanic, source, match, limit, workers, rsltClosed,
                   hvPc, rmatch, drvVars, notCf>>

\* The channel is closed and drained: the harvest goroutine signals alldone.
HvEnd ==
    /\ stage = "confirm" /\ hvPc = "run" /\ rsltChan = <<>> /\ rsltClosed
    /\ hvPc' = "done"
    /\ UNCHANGED <<cfWin, cfPc, cfPanic, source, match, limit, workers, rsltChan,
                   rsltClosed, outBuf, rmatch, drvVars, notCf>>

\* The deferred call of main: limit is filled to its capacity, which
\* needs every worker to have taken its token out, and rsltChan is closed.
CfShutdown ==
    /\ stage = "confirm" /\ cfPc = "shutdown"
    /\ \A w \in 1..Len(workers) : workers[w].state = "done"
    /\ limit' = concurrency
    /\ rsltClosed' = TRUE
    /\ cfPc' = "wait"
    /\ UNCHANGED <<cfWin, cfPanic, source, match, workers, rsltChan, hvPc, outBuf,
                   rmatch, drvVars, notCf>>

\* main receives alldone; the output file is closed and the process ends,
\* normally or with the panic that was under way.
CfExit ==
    /\ stage = "confirm" /\ cfPc = "wait" /\ hvPc = "done"
    /\ cfPc' = IF cfPanic THEN "crash" ELSE "exit"
    /\ rmatch' = [rmatch EXCEPT ![cfWin] = outBuf]
    /\ UNCHANGED <<cfWin, cfPanic, source, match, limit, workers, rsltChan,
                   rsltClosed, hvPc, outBuf, drvVars, notCf>>


\* ------------------------------------------------------------------------
\* The driver: runs the programs one after the other and sorts the
\* streams between them.
\* ------------------------------------------------------------------------

notDrv == <<config, inVars, uqVars, cwVars, wrVars, scVars, extVars>>

DrvIdle == stage = "idle" /\ winSorted = <<>> /\ smatch = <<>>

DrvInit == stage = "windowReads" /\ winSorted = <<>> /\ smatch = <<>>

\* A program that exits with an error stops the driver.
DrvFail ==
    /\ \/ stage = "windowReads" /\ wrPc = "exit1"
       \/ stage = "screen" /\ scPc = "panic"
       \/ stage = "confirm" /\ cfPc = "crash"
    /\ stage' = "failed"
    /\ UNCHANGED <<winSorted, smatch, cfVars, notDrv>>

\* sortWindows, once muscato_window_reads has ended; then the screen starts.
DrvSortWindows ==
    /\ stage = "windowReads" /\ wrPc = "done"
    /\ winSorted' = [k \in 1..Len(winFile) |-> SortLines(winFile[k])]
    /\ stage' = "screen"
    /\ UNCHANGED <<smatch, cfVars, notDrv>>

\* sortBloom, once muscato_screen has ended; then the confirmation of the
\* first window starts.
DrvSortBloom ==
    /\ stage = "screen" /\ scPc = "done"
    /\ smatch' = [k \in 1..Len(bmatch) |-> SortLines(bmatch[k])]
    /\ stage' = "confirm"
    /\ CfBegin(1, winSorted[1], smatch'[1])
    /\ rmatch' = [k \in 1..Len(bmatch) |-> <<>>]
    /\ UNCHANGED <<winSorted, notDrv>>

\* confirm: when the process of one window has ended normally the next
\* window's process runs; after the last one the stage is over.
DrvConfirmNext ==
    /\ stage = "confirm" /\ cfPc = "exit"
    /\ IF cfWin < Len(winSorted)
       THEN /\ CfBegin(cfWin + 1, winSorted[cfWin + 1], smatch[cfWin + 1])
            /\ UNCHANGED <<stage, rmatch>>
       ELSE /\ stage' = "done"
            /\ UNCHANGED cfVars
    /\ UNCHANGED <<winSorted, smatch, notDrv>>



\* ------------------------------------------------------------------------
\* The workflow driver (cmd/muscato): run() registers the stages with the
\* workflow, wf.Run() runs what was registered.
\* ------------------------------------------------------------------------

\* Everything but the variables of the workflow driver.
notWf == <<config, inVars, uqVars, cwVars, wrVars, scVars, cfVars, drvVars, prVars,
           sfVars, coVars, ext2Vars>>

\* The number of tasks the workflow runs at once.
maxConcurrentTasks == 4

\* A stage: its name and, for a stage with one instance per window, the
\* window (0 otherwise).
WfWindows == 1..Len(config.Windows)
PerWindow(name) == {<<name, k>> : k \in WfWindows}

\* The processes the calls of run() before sortByGeneId create: none has
\* a port connected to a process of another stage.
ProcsBeforeSort ==
    {<<"prepReads", 0>>, <<"windowReads", 0>>, <<"screen", 0>>,
     <<"combineWindows", 0>>}
    \cup PerWindow("sortWindows") \cup PerWindow("sortBloom")
    \cup PerWindow("confirm")

\* The processes joinGeneNames and joinReadNames create.
ProcsOfJoins == {<<"joinGeneNames", 0>>, <<"joinReadNames", 0>>}

WfIdle ==
    /\ wfPc = "idle" /\ wfProcs = {} /\ wfStarted = {} /\ wfFinished = {}

\* main has set up its directories and calls run().
WfInit ==
    /\ wfPc = "run" /\ wfProcs = {} /\ wfStarted = {} /\ wfFinished = {}

\* run(): prepReads, windowReads, sortWindows, screen, sortBloom, confirm
\* and combineWindows each create their processes and return.
RunRegister ==
    /\ wfPc = "run"
    /\ wfProcs' = wfProcs \cup ProcsBeforeSort
    /\ wfPc' = "sortByGeneId"
    /\ UNCHANGED <<wfStarted, wfFinished, notWf>>

\* run(): sortByGeneId starts its three commands itself.
RunSortByGeneId ==
    /\ wfPc = "sortByGeneId"
    /\ <<"sortByGeneId", 0>> \notin wfStarted
    /\ wfStarted' = wfStarted \cup {<<"sortByGeneId", 0>>}
    /\ UNCHANGED <<wfPc, wfProcs, wfFinished, notWf>>

\* sortByGeneId waits for its commands; a command that exits with an
\* error ends the driver.  The commands read matches.txt.sz, which
\* combineWindows has not written: both exits are allowed for.
RunSortByGeneIdWait ==
    /\ wfPc = "sortByGeneId"
    /\ <<"sortByGeneId", 0>> \in wfStarted
    /\ wfFinished' = wfFinished \cup {<<"sortByGeneId", 0>>}
    /\ \E ok \in BOOLEAN :
         wfPc' = IF ok \/ <<"combineWindows", 0>> \in wfFinished
                 THEN "joins" ELSE "fatal"
    /\ UNCHANGED <<wfProcs, wfStarted, notWf>>

\* run(): joinGeneNames and joinReadNames create their processes.
RunRegisterJoins ==
    /\ wfPc = "joins"
    /\ wfProcs' = wfProcs \cup ProcsOfJoins
    /\ wfPc' = "wfRun"
    /\ UNCHANGED <<wfStarted, wfFinished, notWf>>

\* main calls wf.Run(): every process runs in a goroutine of its own.
WfRun ==
    /\ wfPc = "wfRun"
    /\ wfPc' = "running"
    /\ UNCHANGED <<wfProcs, wfStarted, wfFinished, notWf>>

\* A process none of whose ports waits for another stage starts its
\* command as soon as one of the workflow's task slots is free.
WfProcStart ==
    /\ wfPc = "running"
    /\ Cardinality((wfStarted \cap wfProcs) \ wfFinished) < maxConcurrentTasks
    /\ \E p \in wfProcs \ wfStarted : wfStarted' = wfStarted \cup {p}
    /\ UNCHANGED <<wfPc, wfProcs, wfFinished, notWf>>

\* The command of a process ends.
WfProcEnd ==
    /\ wfPc = "running"
    /\ \E p \in (wfStarted \cap wfProcs) \ wfFinished :
         wfFinished' = wfFinished \cup {p}
    /\ UNCHANGED <<wfPc, wfProcs, wfStarted, notWf>>

\* Every process has ended: wf.Run() returns.
WfDone ==
    /\ wfPc = "running"
    /\ wfProcs \subseteq wfFinished
    /\ wfPc' = "done"
    /\ UNCHANGED <<wfProcs, wfStarted, wfFinished, notWf>>

\* ------------------------------------------------------------------------
\* muscato_prep_reads: the reads of a fastq file, one line per read
\* ------------------------------------------------------------------------

\* Everything but the variables of muscato_prep_reads.
notPr == <<config, inVars, uqVars, cwVars, wrVars, scVars, cfVars, drvVars, wfVars,
           sfVars, coVars, ext2Vars>>

chN == 78
maxNameLen == 1000
Ellipsis == <<46, 46, 46>>

\* A copy of the sequence that leaves a non-base byte as it is.
subxKeeps(seq) == seq

\* subx: every byte other than A, T, C, G becomes X.
subx(seq) ==
    [i \in 1..Len(seq) |->
        IF seq[i] = chA \/ seq[i] = chT \/ seq[i] = chC \/ seq[i] = chG
        THEN seq[i] ELSE chX]

\* ReadInSeq.Next: four lines are read, the first into Name and the
\* second into Seq; false as soon as the scanner has no line left.
RisNext ==
    LET avail == Len(prFile) - prPos
    IN [ok   |-> avail >= 4,
        pos  |-> prPos + Min(avail, 4),
        Name |-> IF avail >= 1 THEN prFile[prPos + 1] ELSE prName,
        Seq  |-> IF avail >= 2 THEN prFile[prPos + 2] ELSE prSeq]

PrIdle ==
    /\ prFile = <<>> /\ prPos = 0 /\ prPc = "idle"
    /\ prName = <<>> /\ prSeq = <<>> /\ nskip = 0 /\ prOut = <<>>

PrInit(file) ==
    /\ prFile = file /\ prPos = 0 /\ prPc = "loop"
    /\ prName = <<>> /\ prSeq = <<>> /\ nskip = 0 /\ prOut = <<>>

\* One iteration of the loop of source over a read that is too short.
PrSkip ==
    /\ prPc = "loop"
    /\ RisNext.ok
    /\ Len(RisNext.Seq) < config.MinReadLength
    /\ nskip' = nskip + 1
    /\ prPos' = RisNext.pos /\ prName' = RisNext.Name /\ prSeq' = RisNext.Seq
    /\ UNCHANGED <<prFile, prPc, prOut, notPr>>

\* One iteration of the loop of source over a read that is written.
PrEmit ==
    /\ prPc = "loop"
    /\ RisNext.ok
    /\ Len(RisNext.Seq) >= config.MinReadLength
    /\ LET xseq == subx(RisNext.Seq)
           cut == IF Len(xseq) > config.MaxReadLength
                  THEN Slice(xseq, 0, config.MaxReadLength) ELSE xseq
           rn == IF Len(RisNext.Name) > maxNameLen
                 THEN Slice(RisNext.Name, 0, maxNameLen - 5) \o Ellipsis
                 ELSE RisNext.Name
       IN prOut' = Append(prOut, cut \o <<chTab>> \o rn)
    /\ prPos' = RisNext.pos /\ prName' = RisNext.Name /\ prSeq' = RisNext.Seq
    /\ UNCHANGED <<prFile, prPc, nskip, notPr>>

\* The scanner runs out of lines: the loop ends.
PrEnd ==
    /\ prPc = "loop"
    /\ ~RisNext.ok
    /\ prPc' = "done"
    /\ prPos' = RisNext.pos /\ prName' = RisNext.Name /\ prSeq' = RisNext.Seq
    /\ UNCHANGED <<prFile, nskip, prOut, notPr>>

\* ------------------------------------------------------------------------
\* muscato_screen, goroutine by goroutine: the workers that fill the Bloom
\* bitsets, the workers that scan the targets, and the writers of the
\* candidate streams.
\* ------------------------------------------------------------------------

\* Everything but the variables of muscato_screen.
notSf == <<config, inVars, uqVars, cwVars, wrVars, cfVars, drvVars, wfVars, prVars,
           coVars, ext2Vars>>

\* Capacities of the channels wc[k], limit and hitchan[k].
wcCap == 100
screenConcurrency == 200
hitchanCap == 20000

\* A send that puts the value ahead of those waiting in the channel.
ChanSendFront(ch, x) == <<x>> \o ch

\* ch <- x on a buffered channel with room: the value goes to the end of
\* those waiting.
ChanSend(ch, x) == Append(ch, x)

\* A worker that writes the first bitset whatever its window.
WorkerBitsetFirst(k) == 1

\* The bitset the worker of window k writes: smp[k].
WorkerBitset(k) == k

\* The window sequences buildBloom sends for one line of the read table:
\* for each window a sequence of no or one key.
BbKeys(line) ==
    LET seq == Fields(line)[1]
    IN [k \in 1..Len(config.Windows) |->
          LET q1 == config.Windows[k]
              q2 == q1 + config.WindowWidth
          IN IF q2 > Len(seq) THEN <<>>
             ELSE IF CountDinuc(Slice(seq, q1, q2), NewWk) < config.MinDinuc THEN <<>>
             ELSE <<Slice(seq, q1, q2)>>]

\* The sends of processSeq for one target, in the order it makes them:
\* the hits of the first window by window, then those of every later
\* window by end byte and window.
processSends(seq, genenum) ==
    LET hlen == config.WindowWidth
        nw == Len(config.Windows)
        first == IF Len(seq) < hlen THEN {}
                 ELSE {<<hlen - 1, i>> : i \in
                         {i \in Range(checkWin(Slice(seq, 0, hlen))) :
                              FirstWindowHit(seq, genenum, i) # <<>>}}
        later == IF Len(seq) < hlen THEN {}
                 ELSE {<<j, i>> : j \in hlen..(Len(seq) - 1), i \in 1..nw} \cap
                      {p \in (0..Len(seq)) \X (1..nw) :
                          /\ p[1] >= hlen /\ p[1] < Len(seq)
                          /\ p[2] \in Range(checkWin(Slice(seq, p[1] - hlen + 1, p[1] + 1)))
                          /\ RollHit(seq, genenum, p[2], p[1]) # <<>>}
        all == first \cup later
        before(a, b) == a[1] < b[1] \/ (a[1] = b[1] /\ a[2] <= b[2])
        nth(n) == CHOOSE a \in all : Cardinality({b \in all : before(b, a)}) = n
    IN [n \in 1..Cardinality(all) |->
          [win |-> nth(n)[2],
           rec |-> IF nth(n)[1] = hlen - 1
                   THEN FirstWindowHit(seq, genenum, nth(n)[2])[1]
                   ELSE RollHit(seq, genenum, nth(n)[2], nth(n)[1])[1]]]

SfIdle ==
    /\ bbRest = <<>> /\ wc = <<>> /\ wcClosed = FALSE /\ bbWorker = <<>>
    /\ bbWriters = <<>> /\ psQueue = <<>> /\ psRun = {} /\ scLimit = 0
    /\ hitchan = <<>> /\ hitClosed = FALSE /\ hvDone = {}

\* main has made the bitsets and buildBloom has started its workers.
SfInit ==
    /\ bbRest = readTable
    /\ wc = [k \in 1..Len(config.Windows) |-> <<>>]
    /\ wcClosed = FALSE
    /\ bbWorker = [k \in 1..Len(config.Windows) |-> "run"]
    /\ bbWriters = [k \in 1..Len(config.Windows) |-> {}]
    /\ psQueue = [t \in 1..Len(geneFile) |-> <<>>]
    /\ psRun = {}
    /\ scLimit = 0
    /\ hitchan = [k \in 1..Len(config.Windows) |-> <<>>]
    /\ hitClosed = FALSE
    /\ hvDone = {}

\* buildBloom scans one line and sends its windows to the workers.
BbScan ==
    /\ scPc = "build" /\ bbRest # <<>>
    /\ LET keys == BbKeys(Head(bbRest))
       IN /\ \A k \in 1..Len(wc) : Len(wc[k]) + Len(keys[k]) <= wcCap
          /\ wc' = [k \in 1..Len(wc) |-> wc[k] \o keys[k]]
    /\ bbRest' = Tail(bbRest)
    /\ UNCHANGED <<wcClosed, bbWorker, bbWriters, psQueue, psRun, scLimit, hitchan,
                   hitClosed, hvDone, scVars, notSf>>

\* The worker of a window takes a sequence and sets its bits.
BbInsert ==
    /\ \E k \in 1..Len(wc) :
         /\ bbWorker[k] = "run" /\ wc[k] # <<>>
         /\ smp' = [smp EXCEPT ![WorkerBitset(k)] = @ \cup BloomBits(Head(wc[k]))]
         /\ bbWriters' = [bbWriters EXCEPT ![WorkerBitset(k)] = @ \cup {k}]
         /\ wc' = [wc EXCEPT ![k] = Tail(@)]
    /\ UNCHANGED <<bbRest, wcClosed, bbWorker, psQueue, psRun, scLimit, hitchan,
                   hitClosed, hvDone, scPc, scTodo, bmatch, notSf>>

\* The read table is at its end: buildBloom closes the channels.
BbClose ==
    /\ scPc = "build" /\ bbRest = <<>> /\ ~wcClosed
    /\ wcClosed' = TRUE
    /\ UNCHANGED <<bbRest, wc, bbWorker, bbWriters, psQueue, psRun, scLimit, hitchan,
                   hitClosed, hvDone, scVars, notSf>>

\* A worker finds its channel closed and empty and ends.
BbWorkerExit ==
    /\ \E k \in 1..Len(wc) :
         /\ bbWorker[k] = "run" /\ wcClosed /\ wc[k] = <<>>
         /\ bbWorker' = [bbWorker EXCEPT ![k] = "done"]
    /\ UNCHANGED <<bbRest, wc, wcClosed, bbWriters, psQueue, psRun, scLimit, hitchan,
                   hitClosed, hvDone, scVars, notSf>>

\* wg.Wait() returns: buildBloom is over and search starts.
BbWait ==
    /\ scPc = "build" /\ wcClosed
    /\ \A k \in 1..Len(bbWorker) : bbWorker[k] = "done"
    /\ scPc' = "search"
    /\ UNCHANGED <<smp, scTodo, bmatch, sfVars, notSf>>

\* search reads the next target, takes a place in limit and starts the
\* target's worker.  Target line t has the number t-1.
SrDispatch ==
    /\ scPc = "search" /\ scTodo # {}
    /\ scLimit < screenConcurrency
    /\ LET t == CHOOSE x \in scTodo : \A y \in scTodo : x <= y
       IN /\ psQueue' = [psQueue EXCEPT ![t] =
                            processSends(SplitTab(geneFile[t])[1], t - 1)]
          /\ psRun' = psRun \cup {t}
          /\ scTodo' = scTodo \ {t}
    /\ scLimit' = scLimit + 1
    /\ UNCHANGED <<bbRest, wc, wcClosed, bbWorker, bbWriters, hitchan, hitClosed,
                   hvDone, scPc, smp, bmatch, notSf>>

\* A target's worker makes its next send; a slice out of range ends the
\* program.
PsSend ==
    /\ scPc = "search"
    /\ \E t \in psRun :
         /\ psQueue[t] # <<>>
         /\ LET s == Head(psQueue[t])
            IN IF s.rec.panic
               THEN scPc' = "panic" /\ UNCHANGED <<hitchan, psQueue>>
               ELSE /\ Len(hitchan[s.win]) < hitchanCap
                    /\ hitchan' = [hitchan EXCEPT ![s.win] = ChanSend(@, s.rec)]
                    /\ psQueue' = [psQueue EXCEPT ![t] = Tail(@)]
                    /\ UNCHANGED scPc
    /\ UNCHANGED <<bbRest, wc, wcClosed, bbWorker, bbWriters, psRun, scLimit,
                   hitClosed, hvDone, smp, scTodo, bmatch, notSf>>

\* A target's worker returns and gives its place in limit back.
PsExit ==
    /\ scPc = "search"
    /\ \E t \in psRun :
         /\ psQueue[t] = <<>>
         /\ psRun' = psRun \ {t}
    /\ scLimit' = scLimit - 1
    /\ UNCHANGED <<bbRest, wc, wcClosed, bbWorker, bbWriters, psQueue, hitchan,
                   hitClosed, hvDone, scVars, notSf>>

\* search has filled limit, so every worker has returned: it closes the
\* hit channels.
SrClose ==
    /\ scPc = "search" /\ scTodo = {} /\ psRun = {} /\ ~hitClosed
    /\ hitClosed' = TRUE
    /\ UNCHANGED <<bbRest, wc, wcClosed, bbWorker, bbWriters, psQueue, psRun, scLimit,
                   hitchan, hvDone, scVars, notSf>>

\* harvest of window k writes the next hit of its channel.
ScHarvest ==
    /\ scPc = "search"
    /\ \E k \in 1..Len(hitchan) :
         /\ hitchan[k] # <<>>
         /\ bmatch' = [bmatch EXCEPT ![k] = Append(@, HitLine(Head(hitchan[k])))]
         /\ hitchan' = [hitchan EXCEPT ![k] = Tail(@)]
    /\ UNCHANGED <<bbRest, wc, wcClosed, bbWorker, bbWriters, psQueue, psRun, scLimit,
                   hitClosed, hvDone, scPc, smp, scTodo, notSf>>

\* harvest of window k finds its channel closed and empty and ends.
ScHarvestExit ==
    /\ scPc = "search" /\ hitClosed
    /\ \E k \in (1..Len(hitchan)) \ hvDone :
         /\ hitchan[k] = <<>>
         /\ hvDone' = hvDone \cup {k}
    /\ UNCHANGED <<bbRest, wc, wcClosed, bbWorker, bbWriters, psQueue, psRun, scLimit,
                   hitchan, hitClosed, scVars, notSf>>

\* Every harvest has ended: search returns.
SrDone ==
    /\ scPc = "search" /\ hitClosed
    /\ hvDone = 1..Len(hitchan)
    /\ scPc' = "done"
    /\ UNCHANGED <<smp, scTodo, bmatch, sfVars, notSf>>

\* ------------------------------------------------------------------------
\* The confirm stage of the driver: muscato_confirm processes, one per
\* window, started and waited for in rounds of MaxConfirmProcs
\* (MaxMergeProcs in the older driver).
\* ------------------------------------------------------------------------

\* Everything but the variables of the confirm stage.
notCo == <<config, inVars, uqVars, cwVars, wrVars, scVars, cfVars, drvVars, wfVars,
           prVars, sfVars, ext2Vars>>

\* A round of all the windows left, whatever MaxConfirmProcs is.
RoundSizeAll(first) == Len(config.Windows) - first

\* nproc: the number of processes of the round that starts at window
\* first.
RoundSize(first) ==
    IF config.MaxConfirmProcs > Len(config.Windows) - first
    THEN Len(config.Windows) - first
    ELSE config.MaxConfirmProcs

CoIdle ==
    /\ coPc = "idle" /\ fp = 0 /\ cmds = <<>> /\ coWaited = 0
    /\ coProc = <<>> /\ coLaunched = <<>>

CoInit ==
    /\ coPc = "loop" /\ fp = 0 /\ cmds = <<>> /\ coWaited = 0
    /\ coProc = [k \in 1..Len(config.Windows) |-> "none"]
    /\ coLaunched = [k \in 1..Len(config.Windows) |-> 0]

\* The head of the loop: a round of nproc processes begins.
CoRound ==
    /\ coPc = "loop"
    /\ RoundSize(fp) # 0
    /\ cmds' = <<>>
    /\ coPc' = "start"
    /\ UNCHANGED <<fp, coWaited, coProc, coLaunched, notCo>>

\* The head of the loop with no process to start: confirm returns.
CoReturn ==
    /\ coPc = "loop"
    /\ RoundSize(fp) = 0
    /\ coPc' = "done"
    /\ UNCHANGED <<fp, cmds, coWaited, coProc, coLaunched, notCo>>

\* cmd.Start() for the next window k of the round (window number k is
\* entry k+1 of the configured list).
CoStart ==
    /\ coPc = "start"
    /\ Len(cmds) < RoundSize(fp)
    /\ LET k == fp + Len(cmds)
       IN /\ k + 1 \in DOMAIN coProc
          /\ coProc' = [coProc EXCEPT ![k + 1] = "running"]
          /\ coLaunched' = [coLaunched EXCEPT ![k + 1] = @ + 1]
          /\ cmds' = Append(cmds, k)
    /\ UNCHANGED <<coPc, fp, coWaited, notCo>>

\* cmd.Start() returns an error: the driver panics.
CoStartFail ==
    /\ coPc = "start"
    /\ Len(cmds) < RoundSize(fp)
    /\ coPc' = "panic"
    /\ UNCHANGED <<fp, cmds, coWaited, coProc, coLaunched, notCo>>

\* Every process of the round has been started: the waits begin.
CoStarted ==
    /\ coPc = "start"
    /\ ~(Len(cmds) < RoundSize(fp))
    /\ coPc' = "wait"
    /\ coWaited' = 0
    /\ UNCHANGED <<fp, cmds, coProc, coLaunched, notCo>>

\* A running muscato_confirm process ends, normally or with an error.
CoProcExit ==
    /\ \E k \in 1..Len(coProc), st \in {"exited", "failed"} :
         /\ coProc[k] = "running"
         /\ coProc' = [coProc EXCEPT ![k] = st]
    /\ UNCHANGED <<coPc, fp, cmds, coWaited, coLaunched, notCo>>

\* cmd.Wait() for the next process of the round returns: an error makes
\* the driver panic; after the last one the round is over.
CoWait ==
    /\ coPc = "wait"
    /\ coWaited < Len(cmds)
    /\ LET k == cmds[coWaited + 1]
       IN /\ coProc[k + 1] \in {"exited", "failed"}
          /\ IF coProc[k + 1] = "failed"
             THEN coPc' = "panic" /\ UNCHANGED <<coWaited, fp>>
             ELSE IF coWaited + 1 = Len(cmds)
             THEN /\ coPc' = "loop"
                  /\ fp' = fp + RoundSize(fp)
                  /\ coWaited' = coWaited + 1
             ELSE /\ coWaited' = coWaited + 1
                  /\ UNCHANGED <<coPc, fp>>
    /\ UNCHANGED <<cmds, coProc, coLaunched, notCo>>

\* ------------------------------------------------------------------------
\* muscato_screen: the target workers that meet an error.  processSeq
\* sends the error to errc and returns; search looks into errc once, after
\* it has waited for every worker.
\* ------------------------------------------------------------------------

\* Everything but the variables of muscato_screen.
notSe == <<config, inVars, uqVars, cwVars, wrVars, cfVars, drvVars, wfVars, prVars,
           coVars, seOthers>>

SeIdle ==
    /\ errc = <<>> /\ seFail = {} /\ seFirst = <<>> /\ seFatal = <<>>

\* The workers are taken in the order they were started (any other order
\* permutes the errors in errc).
SeNext == CHOOSE t \in psRun : \A u \in psRun : t <= u

\* search reads the next target, takes a place in limit and starts the
\* target's worker.
SeDispatch ==
    /\ scPc = "search" /\ scTodo # {}
    /\ scLimit < screenConcurrency
    /\ LET t == CHOOSE x \in scTodo : \A y \in scTodo : x <= y
       IN /\ psRun' = psRun \cup {t}
          /\ scTodo' = scTodo \ {t}
    /\ scLimit' = scLimit + 1
    /\ UNCHANGED <<bbRest, wc, wcClosed, bbWorker, bbWriters, psQueue, hitchan,
                   hitClosed, hvDone, scPc, smp, bmatch, seVars, notSe>>

\* A worker whose hash or probe fails sends the error, when errc has
\* room, and returns; its deferred call gives its place in limit back.
SeReport ==
    /\ scPc = "search"
    /\ psRun # {}
    /\ SeNext \in seFail
    /\ Len(errc) < screenConcurrency
    /\ errc' = Append(errc, SeNext)
    /\ seFirst' = IF seFirst = <<>> THEN <<SeNext>> ELSE seFirst
    /\ psRun' = psRun \ {SeNext}
    /\ scLimit' = scLimit - 1
    /\ UNCHANGED <<bbRest, wc, wcClosed, bbWorker, bbWriters, psQueue, hitchan,
                   hitClosed, hvDone, scVars, seFail, seFatal, notSe>>

\* A worker that meets no error comes to its end and gives its place
\* back; its target has no window that probes as present, so it has sent
\* nothing.
SePass ==
    /\ scPc = "search"
    /\ psRun # {}
    /\ SeNext \notin seFail
    /\ processSends(SplitTab(geneFile[SeNext])[1], SeNext - 1) = <<>>
    /\ psRun' = psRun \ {SeNext}
    /\ scLimit' = scLimit - 1
    /\ UNCHANGED <<bbRest, wc, wcClosed, bbWorker, bbWriters, psQueue, hitchan,
                   hitClosed, hvDone, scVars, seVars, notSe>>

\* search has filled limit, so every worker has given its place back;
\* errc holds an error: log.Fatal.
SeFatal ==
    /\ scPc = "search" /\ scTodo = {} /\ psRun = {} /\ ~hitClosed
    /\ errc # <<>>
    /\ seFatal' = <<Head(errc)>>
    /\ errc' = Tail(errc)
    /\ scPc' = "fatal"
    /\ UNCHANGED <<seFail, seFirst, smp, scTodo, bmatch, sfVars, notSe>>

\* search has filled limit and errc is empty: the hit channels are closed.
SeClose ==
    /\ scPc = "search" /\ scTodo = {} /\ psRun = {} /\ ~hitClosed
    /\ errc = <<>>
    /\ hitClosed' = TRUE
    /\ UNCHANGED <<bbRest, wc, wcClosed, bbWorker, bbWriters, psQueue, psRun, scLimit,
                   hitchan, hvDone, scVars, seVars, notSe>>

\* ------------------------------------------------------------------------
\* muscato_prep_targets: a sequence file and an id file from a raw target
\* file in text format (id, tab, sequence) or in FASTA format.
\* ------------------------------------------------------------------------

\* Everything but the variables of muscato_prep_targets.
notPt == <<config, inVars, uqVars, cwVars, wrVars, scVars, cfVars, drvVars, wfVars,
           prVars, sfVars, coVars, ptOthers>>

chGt == 62
SuffixR == <<95, 114>>

\* revcomp: the complement of each base at the mirrored place; a byte
\* that is none of A, T, G, C, X leaves the zero byte of the new slice.
revcomp(seq) ==
    [i \in 1..Len(seq) |->
        LET x == seq[Len(seq) + 1 - i]
        IN IF x = chA THEN chT
           ELSE IF x = chT THEN chA
           ELSE IF x = chG THEN chC
           ELSE IF x = chC THEN chG
           ELSE IF x = chX THEN chX
           ELSE 0]

\* The id line of serial n: %011d, name, length.
IdLine(n, nam, len) == JoinTab(<<ZeroPad(Itoa(n), 11), nam, Itoa(len)>>)

PtIdle ==
    /\ ptFile = <<>> /\ ptPos = 0 /\ ptPc = "idle" /\ ptRev = FALSE
    /\ ptSeqname = <<>> /\ ptSeq = <<>> /\ ptLnum = 0
    /\ seqout = <<>> /\ idout = <<>>

PtInit(file, isfasta, rev) ==
    /\ ptFile = file /\ ptPos = 0
    /\ ptPc = IF isfasta THEN "fasta" ELSE "text"
    /\ ptRev = rev
    /\ ptSeqname = <<>> /\ ptSeq = <<>> /\ ptLnum = 0
    /\ seqout = <<>> /\ idout = <<>>

\* The line the scanner delivers next.
PtLine == ptFile[ptPos + 1]

\* processText: an empty line ends the loop.
PtTextBlank ==
    /\ ptPc = "text" /\ ptPos < Len(ptFile)
    /\ Len(PtLine) = 0
    /\ ptPc' = "done"
    /\ ptPos' = ptPos + 1
    /\ UNCHANGED <<ptFile, ptRev, ptSeqname, ptSeq, ptLnum, seqout, idout, notPt>>

\* processText: a line that has not two tokens ends the program.
PtTextBad ==
    /\ ptPc = "text" /\ ptPos < Len(ptFile)
    /\ Len(PtLine) # 0
    /\ Len(SplitTab(PtLine)) # 2
    /\ ptPc' = "exit0"
    /\ ptPos' = ptPos + 1
    /\ UNCHANGED <<ptFile, ptRev, ptSeqname, ptSeq, ptLnum, seqout, idout, notPt>>

\* processText: one target, and its reverse complement with -rev.
PtTextWrite ==
    /\ ptPc = "text" /\ ptPos < Len(ptFile)
    /\ Len(PtLine) # 0
    /\ Len(SplitTab(PtLine)) = 2
    /\ LET nam == SplitTab(PtLine)[1]
           seq == subx(SplitTab(PtLine)[2])
       IN IF ptRev
          THEN /\ seqout' = seqout \o <<seq, revcomp(seq)>>
               /\ idout' = idout \o <<IdLine(ptLnum, nam, Len(seq)),
                                      IdLine(ptLnum + 1, nam \o SuffixR, Len(seq))>>
               /\ ptLnum' = ptLnum + 2
          ELSE /\ seqout' = Append(seqout, seq)
               /\ idout' = Append(idout, IdLine(ptLnum, nam, Len(seq)))
               /\ ptLnum' = ptLnum + 1
    /\ ptPos' = ptPos + 1
    /\ UNCHANGED <<ptFile, ptPc, ptRev, ptSeqname, ptSeq, notPt>>

\* processText: the end of the file.
PtTextEnd ==
    /\ ptPc = "text" /\ ptPos = Len(ptFile)
    /\ ptPc' = "done"
    /\ UNCHANGED <<ptFile, ptPos, ptRev, ptSeqname, ptSeq, ptLnum, seqout, idout, notPt>>

\* processFasta: line[0] of an empty line is out of range.
PtFastaBlank ==
    /\ ptPc = "fasta" /\ ptPos < Len(ptFile)
    /\ Len(PtLine) = 0
    /\ ptPc' = "panic"
    /\ ptPos' = ptPos + 1
    /\ UNCHANGED <<ptFile, ptRev, ptSeqname, ptSeq, ptLnum, seqout, idout, notPt>>

\* processFasta: a header line; the target read so far, if it has any
\* base, is written after subx.
PtFastaHeader ==
    /\ ptPc = "fasta" /\ ptPos < Len(ptFile)
    /\ Len(PtLine) # 0 /\ PtLine[1] = chGt
    /\ IF Len(ptSeq) > 0
       THEN LET seq == subx(ptSeq)
            IN IF ptRev
               THEN /\ seqout' = seqout \o <<seq, revcomp(seq)>>
                    /\ idout' = idout \o
                          <<IdLine(ptLnum, ptSeqname, Len(seq)),
                            IdLine(ptLnum + 1, ptSeqname \o SuffixR, Len(seq))>>
                    /\ ptLnum' = ptLnum + 2
               ELSE /\ seqout' = Append(seqout, seq)
                    /\ idout' = Append(idout, IdLine(ptLnum, ptSeqname, Len(seq)))
                    /\ ptLnum' = ptLnum + 1
       ELSE UNCHANGED <<seqout, idout, ptLnum>>
    /\ ptSeqname' = PtLine
    /\ ptSeq' = <<>>
    /\ ptPos' = ptPos + 1
    /\ UNCHANGED <<ptFile, ptPc, ptRev, notPt>>

\* processFasta: a line of bases is added to the target.
PtFastaSeq ==
    /\ ptPc = "fasta" /\ ptPos < Len(ptFile)
    /\ Len(PtLine) # 0 /\ PtLine[1] # chGt
    /\ ptSeq' = ptSeq \o PtLine
    /\ ptPos' = ptPos + 1
    /\ UNCHANGED <<ptFile, ptPc, ptRev, ptSeqname, ptLnum, seqout, idout, notPt>>

\* processFasta: the end of the file; the last target, if it has any
\* base, is written as it was read.
PtFastaEnd ==
    /\ ptPc = "fasta" /\ ptPos = Len(ptFile)
    /\ IF Len(ptSeq) > 0
       THEN IF ptRev
            THEN /\ seqout' = seqout \o <<ptSeq, revcomp(ptSeq)>>
                 /\ idout' = idout \o
                       <<IdLine(ptLnum, ptSeqname, Len(ptSeq)),
                         IdLine(ptLnum + 1, ptSeqname \o SuffixR, Len(ptSeq))>>
                 /\ ptLnum' = ptLnum + 2
                 /\ ptSeq' = revcomp(ptSeq)
            ELSE /\ seqout' = Append(seqout, ptSeq)
                 /\ idout' = Append(idout, IdLine(ptLnum, ptSeqname, Len(ptSeq)))
                 /\ ptLnum' = ptLnum + 1
                 /\ UNCHANGED ptSeq
       ELSE UNCHANGED <<seqout, idout, ptLnum, ptSeq>>
    /\ ptPc' = "done"
    /\ UNCHANGED <<ptFile, ptPos, ptRev, ptSeqname, notPt>>

\* ------------------------------------------------------------------------
\* muscato_nonmatch: the reads of the read table that the results file does
\* not hold, found with a Bloom filter of the matched sequences.
\* ------------------------------------------------------------------------

\* Everything but the variables of muscato_nonmatch.
notNm == <<config, inVars, uqVars, cwVars, wrVars, scVars, cfVars, drvVars, wfVars,
           prVars, sfVars, coVars, nmOthers>>

chHash == 35
chPlus == 43
chBang == 33

\* bf.Add and bf.Test of github.com/willf/bloom: a key stands for a fixed
\* set of bit positions; Add sets them, Test asks whether all are set.
BloomAdd(bits, key) == bits \cup nmLoc[key]
BloomTest(bits, key) == nmLoc[key] \subseteq bits

\* The FASTQ record of a read table line: name#count, sequence, +, and one
\* ! for each base.
FastqRecord(f) ==
    <<f[3] \o <<chHash>> \o f[2], f[1], <<chPlus>>, [i \in 1..Len(f[1]) |-> chBang]>>

NmIdle ==
    /\ nmResults = <<>> /\ nmReads = <<>> /\ nmLoc = <<>>
    /\ nmPc = "idle" /\ nmPos = 0 /\ bf = {} /\ nmOut = <<>>

NmInit(resultLines, readLines, loc) ==
    /\ nmResults = resultLines /\ nmReads = readLines /\ nmLoc = loc
    /\ nmPc = "build" /\ nmPos = 0 /\ bf = {} /\ nmOut = <<>>

\* One line of the results file: its first field is added to the filter.
NmAdd ==
    /\ nmPc = "build" /\ nmPos < Len(nmResults)
    /\ bf' = BloomAdd(bf, Fields(nmResults[nmPos + 1])[1])
    /\ nmPos' = nmPos + 1
    /\ UNCHANGED <<nmResults, nmReads, nmLoc, nmPc, nmOut, notNm>>

\* The results file is at its end: the output file and the read table are
\* opened.
NmOpen ==
    /\ nmPc = "build" /\ nmPos = Len(nmResults)
    /\ nmPc' = "scan"
    /\ nmPos' = 0
    /\ UNCHANGED <<nmResults, nmReads, nmLoc, bf, nmOut, notNm>>

\* A read the filter reports: nothing is written.
NmSkip ==
    /\ nmPc = "scan" /\ nmPos < Len(nmReads)
    /\ BloomTest(bf, Fields(nmReads[nmPos + 1])[1])
    /\ nmPos' = nmPos + 1
    /\ UNCHANGED <<nmResults, nmReads, nmLoc, nmPc, bf, nmOut, notNm>>

\* A read the filter does not report: its FASTQ record is written.
NmWrite ==
    /\ nmPc = "scan" /\ nmPos < Len(nmReads)
    /\ ~BloomTest(bf, Fields(nmReads[nmPos + 1])[1])
    /\ nmOut' = nmOut \o FastqRecord(Fields(nmReads[nmPos + 1]))
    /\ nmPos' = nmPos + 1
    /\ UNCHANGED <<nmResults, nmReads, nmLoc, nmPc, bf, notNm>>

\* The read table is at its end.
NmEnd ==
    /\ nmPc = "scan" /\ nmPos = Len(nmReads)
    /\ nmPc' = "done"
    /\ UNCHANGED <<nmResults, nmReads, nmLoc, nmPos, bf, nmOut, notNm>>

\* ------------------------------------------------------------------------
\* joinGeneNames and joinReadNames of the driver: join(1), cut(1) and
\* sort(1) over the matches, the target id file and the read table.
\* ------------------------------------------------------------------------

\* Everything but the variables of the joins.
notJn == <<config, inVars, uqVars, cwVars, wrVars, scVars, cfVars, drvVars, wfVars,
           prVars, sfVars, coVars, jnOthers>>

\* The fields of a line without field k.
FieldsBut(line, k) ==
    LET f == SplitTab(line)
    IN SubSeq(f, 1, k - 1) \o SubSeq(f, k + 1, Len(f))

\* The number of leading lines of s whose field k equals key.
RunLength(s, k, key) ==
    LET other == {i \in 1..Len(s) : SplitTab(s[i])[k] # key}
    IN IF other = {} THEN Len(s)
       ELSE (CHOOSE i \in other : \A j \in other : i <= j) - 1

\* join -1 ka -2 kb -t tab: both files are read forward; the file whose
\* key is smaller advances; for equal keys every line of the run of a is
\* paired with every line of the run of b, and a pair is written as the
\* key, the other fields of the first line, the other fields of the second.
RECURSIVE Join(_, _, _, _)
Join(a, ka, b, kb) ==
    IF Len(a) = 0 \/ Len(b) = 0 THEN <<>>
    ELSE LET keya == SplitTab(a[1])[ka]
             keyb == SplitTab(b[1])[kb]
             c == BytesCompare(keya, keyb)
         IN IF c < 0 THEN Join(Tail(a), ka, b, kb)
            ELSE IF c > 0 THEN Join(a, ka, Tail(b), kb)
            ELSE LET na == RunLength(a, ka, keya)
                     nb == RunLength(b, kb, keya)
                 IN [n \in 1..(na * nb) |->
                        JoinTab(<<keya>>
                                \o FieldsBut(a[((n - 1) \div nb) + 1], ka)
                                \o FieldsBut(b[((n - 1) % nb) + 1], kb))]
                    \o Join(SubSeq(a, na + 1, Len(a)), ka,
                            SubSeq(b, nb + 1, Len(b)), kb)

\* A cut that keeps every field.
CutNothing(line) == line

\* cut -f1 --complement: the line without its first field; a line that
\* has no tab is written as it is.
CutFirst(line) ==
    IF Len(SplitTab(line)) = 1 THEN line ELSE JoinTab(FieldsBut(line, 1))

JnIdle ==
    /\ matchesSg = <<>> /\ geneIdFile = <<>> /\ jnPc = "idle"
    /\ matchesSn = <<>> /\ results = <<>>

\* joinGeneNames: the matches joined with the target id file on the
\* target id, the id cut off.
JoinGeneNames ==
    /\ jnPc = "genes"
    /\ matchesSn' = LET j == Join(matchesSg, 5, geneIdFile, 1)
                    IN [i \in 1..Len(j) |-> CutFirst(j[i])]
    /\ jnPc' = "reads"
    /\ UNCHANGED <<matchesSg, geneIdFile, results, notJn>>

\* joinReadNames: the named matches, sorted, joined with the read table on
\* the read sequence.
JoinReadNames ==
    /\ jnPc = "reads"
    /\ results' = Join(SortLines(matchesSn), 1, readTable, 1)
    /\ jnPc' = "done"
    /\ UNCHANGED <<matchesSg, geneIdFile, matchesSn, notJn>>

\* ------------------------------------------------------------------------
\* CountDinuc called again and again with the same scratch array.
\* ------------------------------------------------------------------------

\* Everything but the variables of the caller of CountDinuc.
notCd == <<config, inVars, uqVars, cwVars, wrVars, scVars, cfVars, drvVars, wfVars,
           prVars, sfVars, coVars, cdOthers>>

\* wk once CountDinuc has returned: wk[k] is the number of adjacent pairs
\* of the window whose index 5*last + v is k.
DinucWk(seq) ==
    [k \in 1..25 |->
        Cardinality({i \in 2..Len(seq) :
                        5 * DinucClass(seq[i - 1]) + DinucClass(seq[i]) + 1 = k})]

CdIdle == cdSeq = <<>> /\ cdWk = <<>> /\ cdRet = 0 /\ cdCalls = 0

\* One call: n := utils.CountDinuc(seq, wk).
CdCall(seq) ==
    /\ cdCalls < MaxCdCalls
    /\ cdSeq' = seq
    /\ cdRet' = CountDinuc(seq, cdWk)
    /\ cdWk' = DinucWk(seq)
    /\ cdCalls' = cdCalls + 1
    /\ UNCHANGED notCd

\* ------------------------------------------------------------------------
\* The cancel signal: raised from outside the workers.  No statement of
\* processSeq, search or harvest (src/cmd/muscato_screen/main.go) reads a
\* cancel signal, so no action of the screen refers to cancelRaised.
\* ------------------------------------------------------------------------

CnIdle == cancelRaised = FALSE

\* The signal is raised while the targets are scanned.
RaiseCancel ==
    /\ scPc = "search"
    /\ ~cancelRaised
    /\ cancelRaised' = TRUE
    /\ UNCHANGED <<config, inVars, uqVars, cwVars, wrVars, scVars, cfVars, drvVars,
                   wfVars, prVars, sfVars, coVars, cnOthers>>

\* ------------------------------------------------------------------------
\* breader.Next called again and again on one file.
\* ------------------------------------------------------------------------

\* Everything but the variables of the caller of breader.Next.
notBr == <<config, inVars, uqVars, cwVars, wrVars, scVars, cfVars, drvVars, wfVars,
           prVars, sfVars, coVars, brOthers>>

MaxBrLines == 4
MaxBrExtraCalls == 3

BrIdle ==
    /\ brInput = <<>> /\ brB = <<>> /\ brOk = FALSE /\ brCalls = 0
    /\ brBlocks = <<>>

\* One call of b.Next(); the lines of b.recs are noted when it returns
\* true.  A panic of the sort check ends the calls.
BrNext ==
    /\ brCalls < Len(brInput) + MaxBrExtraCalls
    /\ LET r == BreaderNext(brB)
       IN /\ ~r.panic
          /\ brB' = r.b
          /\ brOk' = r.ok
          /\ brBlocks' = IF r.ok
                         THEN Append(brBlocks, [j \in 1..Len(r.b.recs) |-> r.b.recs[j].buf])
                         ELSE brBlocks
    /\ brCalls' = brCalls + 1
    /\ UNCHANGED <<brInput, notBr>>

\* ------------------------------------------------------------------------
\* The deferred call of main in muscato_confirm, one send at a time: limit
\* is filled with cap(limit) tokens, rsltChan is closed, alldone is awaited.
\* ------------------------------------------------------------------------

\* The loop of the deferred call is left without a single send.
FillDoneAtOnce(k) == TRUE

\* for k := 0; k < cap(limit); k++: the loop is over after cap(limit) sends.
FillDone(k) == k = concurrency

SdIdle == cfFill = 0

\* Everything but the variables of muscato_confirm, of the driver and of
\* the newer components.
notCfBase == <<config, inVars, uqVars, cwVars, wrVars, scVars, wfVars, prVars, sfVars,
               coVars>>

\* limit <- true in the deferred call: waits while limit is full.
CfFillStep ==
    /\ stage = "confirm" /\ cfPc = "shutdown"
    /\ ~FillDone(cfFill)
    /\ limit < concurrency
    /\ limit' = limit + 1
    /\ cfFill' = cfFill + 1
    /\ UNCHANGED <<cfWin, cfPc, cfPanic, source, match, workers, rsltChan, rsltClosed,
                   hvPc, outBuf, rmatch, drvVars, notCfBase, sdOthers>>

\* close(rsltChan); main goes on to wait for alldone.
CfClose ==
    /\ stage = "confirm" /\ cfPc = "shutdown"
    /\ FillDone(cfFill)
    /\ rsltClosed' = TRUE
    /\ cfPc' = "wait"
    /\ UNCHANGED <<cfWin, cfPanic, source, match, limit, workers, rsltChan,
                   hvPc, outBuf, rmatch, cfFill, drvVars, notCfBase, sdOthers>>

\* ------------------------------------------------------------------------
\* The end of search in muscato_screen, one send at a time: limit is
\* filled with concurrency tokens, then the hit channels are closed.
\* ------------------------------------------------------------------------

\* The loop that fills limit is left without a single send.
SrFillDoneAtOnce(k) == TRUE

\* for k := 0; k < concurrency; k++: the loop is over after concurrency
\* sends.
SrFillDone(k) == k = screenConcurrency

HfIdle == srFill = 0

\* Everything but the variables of muscato_screen and of the newer
\* components.
notSfBase == <<config, inVars, uqVars, cwVars, wrVars, cfVars, drvVars, wfVars, prVars,
               coVars>>

\* limit <- true after the scan loop: waits while limit is full.
SrFillStep ==
    /\ scPc = "search" /\ scTodo = {} /\ ~hitClosed
    /\ ~SrFillDone(srFill)
    /\ scLimit < screenConcurrency
    /\ scLimit' = scLimit + 1
    /\ srFill' = srFill + 1
    /\ UNCHANGED <<bbRest, wc, wcClosed, bbWorker, bbWriters, psQueue, psRun, hitchan,
                   hitClosed, hvDone, scVars, notSfBase, hfOthers>>

\* No error is waiting in errc: the hit channels are closed.
SrCloseFilled ==
    /\ scPc = "search" /\ scTodo = {} /\ ~hitClosed
    /\ SrFillDone(srFill)
    /\ hitClosed' = TRUE
    /\ UNCHANGED <<bbRest, wc, wcClosed, bbWorker, bbWriters, psQueue, psRun, scLimit,
                   hitchan, hvDone, srFill, scVars, notSfBase, hfOthers>>

\* ------------------------------------------------------------------------
\* The blocks handed to the workers of muscato_confirm, with the memory
\* behind the slices: Next empties the recs slice of its reader with
\* recs[0:0] and appends into the same backing array.
\* ------------------------------------------------------------------------

\* A slot of a backing array that append has not written yet.
NilRec == NewRec(<<>>)

\* append to a full slice of capacity c: the capacity of the new array.
GrowCap(c) == IF c = 0 THEN 1 ELSE 2 * c

RECURSIVE GrowTo(_, _)
GrowTo(c, n) == IF c >= n THEN c ELSE GrowTo(GrowCap(c), n)

\* The memory after a call of Next that has left the block new in the recs
\* slice of reader who: the records are written from slot 1 on into the
\* array of the slice; where the array is too short its slots are written
\* and the slice moves to a new array.
StoreBlock(arrs, cur, who, new) ==
    LET c == IF cur[who] = 0 THEN 0 ELSE Len(arrs[cur[who]])
        n == Len(new)
    IN IF n <= c
       THEN [arrs |-> [arrs EXCEPT ![cur[who]] = new \o SubSeq(@, n + 1, c)],
             cur |-> cur]
       ELSE LET old == IF cur[who] = 0 THEN arrs
                       ELSE [arrs EXCEPT ![cur[who]] = SubSeq(new, 1, c)]
                fresh == new \o [i \in 1..(GrowTo(c, n) - n) |-> NilRec]
            IN [arrs |-> Append(old, fresh),
                cur |-> [cur EXCEPT ![who] = Len(old) + 1]]

\* Next on reader b, the memory included.  A reader that is done returns
\* before it touches its slice.
StoreNext(arrs, cur, who, b, r) ==
    IF b.done THEN [arrs |-> arrs, cur |-> cur]
    ELSE StoreBlock(arrs, cur, who, r.b.recs)

\* The slice of the reader itself handed over: it shares the backing array.
HandedShared(who, b) ==
    [own |-> FALSE, from |-> cpCur[who], len |-> Len(b.recs), recs |-> <<>>]

\* rcpy(source.recs), rcpy(match.recs) in the go statement: the worker is
\* given a slice of its own with copies of the records.
Handed(who, b) ==
    [own |-> TRUE, from |-> cpCur[who], len |-> Len(b.recs), recs |-> rcpy(b.recs)]

\* What a worker finds behind the slice h.
Deref(h) == IF h.own THEN h.recs ELSE SubSeq(cpArrs[h.from], 1, h.len)

CpIdle == cpArrs = <<>> /\ cpCur = <<>> /\ cpWorkers = <<>>

\* The first calls of Next.
CpStart ==
    /\ stage = "confirm" /\ cfPc = "start"
    /\ LET rs == BreaderNext(source)
           rm == IF rs.panic THEN [b |-> match, ok |-> FALSE, panic |-> FALSE]
                 ELSE BreaderNext(match)
           m1 == StoreNext(cpArrs, cpCur, "source", source, rs)
           m2 == IF rs.panic THEN m1 ELSE StoreNext(m1.arrs, m1.cur, "match", match, rm)
       IN /\ source' = rs.b
          /\ match' = rm.b
          /\ cpArrs' = m2.arrs /\ cpCur' = m2.cur
          /\ IF rs.panic \/ rm.panic
             THEN cfPanic' = TRUE /\ cfPc' = "shutdown"
             ELSE IF ~(rs.ok \/ rm.ok)
             THEN cfPc' = "shutdown" /\ UNCHANGED cfPanic
             ELSE cfPc' = "loop" /\ UNCHANGED cfPanic
    /\ UNCHANGED <<cfWin, limit, workers, rsltChan, rsltClosed, hvPc, outBuf, rmatch,
                   cpWorkers, drvVars, notCfBase, cpOthers>>

\* One iteration of the merge loop.  Equal keys: a token is put into limit
\* and a worker is started on the two blocks, then both readers advance.
CpLoop ==
    /\ stage = "confirm" /\ cfPc = "loop"
    /\ IF Len(source.recs) = 0 \/ Len(match.recs) = 0
       THEN /\ cfPanic' = TRUE /\ cfPc' = "shutdown"
            /\ UNCHANGED <<source, match, limit, cpArrs, cpCur, cpWorkers>>
       ELSE LET s == source.recs[1].fields[1]
                m == match.recs[1].fields[1]
                c == BytesCompare(s, m)
                rs == IF c <= 0 THEN BreaderNext(source)
                      ELSE [b |-> source, ok |-> TRUE, panic |-> FALSE]
                rm == IF (c = 0 /\ ~rs.panic) \/ c > 0 THEN BreaderNext(match)
                      ELSE [b |-> match, ok |-> TRUE, panic |-> FALSE]
                m1 == IF c <= 0 THEN StoreNext(cpArrs, cpCur, "source", source, rs)
                      ELSE [arrs |-> cpArrs, cur |-> cpCur]
                m2 == IF (c = 0 /\ ~rs.panic) \/ c > 0
                      THEN StoreNext(m1.arrs, m1.cur, "match", match, rm)
                      ELSE m1
            IN /\ c = 0 => LimitHasRoom
               /\ IF c = 0
                  THEN /\ limit' = limit + 1
                       /\ cpWorkers' = Append(cpWorkers,
                             [src |-> Handed("source", source),
                              mat |-> Handed("match", match),
                              disp |-> <<source.recs, match.recs>>,
                              seen |-> <<>>, state |-> "run"])
                  ELSE UNCHANGED <<limit, cpWorkers>>
               /\ source' = rs.b
               /\ match' = rm.b
               /\ cpArrs' = m2.arrs /\ cpCur' = m2.cur
               /\ IF rs.panic \/ rm.panic
                  THEN cfPanic' = TRUE /\ cfPc' = "shutdown"
                  ELSE /\ UNCHANGED cfPanic
                       /\ cfPc' = IF c = 0 THEN (IF ~(rs.ok \/ rm.ok) THEN "shutdown" ELSE "loop")
                                  ELSE IF c < 0 THEN (IF ~rs.ok THEN "shutdown" ELSE "loop")
                                  ELSE (IF ~rm.ok THEN "shutdown" ELSE "loop")
    /\ UNCHANGED <<cfWin, workers, rsltChan, rsltClosed, hvPc, outBuf, rmatch,
                   drvVars, notCfBase, cpOthers>>

\* A worker reads its two blocks, at any time after it was started.
CpWorkerRead ==
    /\ stage = "confirm"
    /\ \E w \in 1..Len(cpWorkers) :
         /\ cpWorkers[w].state = "run"
         /\ cpWorkers' = [cpWorkers EXCEPT
                             ![w].seen = <<Deref(cpWorkers[w].src), Deref(cpWorkers[w].mat)>>,
                             ![w].state = "read"]
    /\ UNCHANGED <<cfVars, cpArrs, cpCur, drvVars, notCfBase, cpOthers>>

\* A worker returns: its deferred call takes a token out of limit.
CpWorkerExit ==
    /\ stage = "confirm"
    /\ \E w \in 1..Len(cpWorkers) :
         /\ cpWorkers[w].state = "read"
         /\ limit > 0
         /\ limit' = Release(limit)
         /\ cpWorkers' = [cpWorkers EXCEPT ![w].state = "done"]
    /\ UNCHANGED <<cfWin, cfPc, cfPanic, source, match, workers, rsltChan, rsltClosed,
                   hvPc, outBuf, rmatch, cpArrs, cpCur, drvVars, notCfBase, cpOthers>>

\* ------------------------------------------------------------------------
\* The queue of matches searchpairs keeps for one window key in best
\* mode: every confirmed match goes through qinsert.
\* ------------------------------------------------------------------------

MaxHqInserts == 5
MaxHqMismatch == 2
HqMaxMatchesChoices == {1, 2, 3}

HqIdle == hqQ = <<>> /\ hqAll = <<>>

\* qvals = qinsert(qvals, qq) for a confirmed match with nx mismatches.
HqInsert ==
    /\ Len(hqAll) < MaxHqInserts
    /\ \E nx \in 0..MaxHqMismatch :
         /\ hqQ' = qinsert(hqQ, [mismatch |-> nx, gob |-> Itoa(Len(hqAll))])
         /\ hqAll' = Append(hqAll, nx)
    /\ UNCHANGED <<cfVars, drvVars, notCfBase, hqOthers>>

Ext2Idle == SeIdle /\ PtIdle /\ NmIdle /\ JnIdle /\ CdIdle /\ CnIdle /\ BrIdle /\ SdIdle /\ HfIdle /\ CpIdle /\ HqIdle
ExtIdle == WfIdle /\ PrIdle /\ SfIdle /\ CoIdle /\ Ext2Idle


\* ------------------------------------------------------------------------
\* Specifications
\* ------------------------------------------------------------------------

vars == <<config, inVars, uqVars, cwVars, wrVars, scVars, cfVars, drvVars, extVars>>

\* A configuration; a program that does not read a field finds the value
\* given here.  PMatch is the fraction num / den.
ConfigDefault ==
    [Windows |-> <<0, 1>>, WindowWidth |-> 2, MinDinuc |-> 1,
     MaxReadLength |-> 3, MMTol |-> 0, BloomSize |-> 2, NumHash |-> 1,
     PMatch |-> [num |-> 1, den |-> 2], MaxMatches |-> 1,
     MatchMode |-> "first", MaxConfirmProcs |-> 1, MinReadLength |-> 2]

\* The window lists, entropy thresholds, match shares and match modes the
\* model draws from.
WindowChoices == {<<0>>, <<1>>, <<0, 1>>}
MinDinucChoices == {1, 2}
PMatchChoices == {[num |-> 1, den |-> 2], [num |-> 1, den |-> 1]}
MatchModeChoices == {"first", "best"}

InitUniq ==
    /\ UqInit /\ CwIdle /\ InIdle /\ WrIdle /\ ScIdle /\ CfIdle /\ DrvIdle
    /\ ExtIdle
    /\ config = ConfigDefault

NextUniq == UqNoInput \/ UqPrime \/ UqScan \/ UqFinish

SpecUniq == InitUniq /\ [][NextUniq]_vars

InitCombine ==
    /\ CwInit /\ UqIdle /\ InIdle /\ WrIdle /\ ScIdle /\ CfIdle /\ DrvIdle
    /\ ExtIdle
    /\ \E m \in 0..MaxMMTol : config = [ConfigDefault EXCEPT !.MMTol = m]

NextCombine == CwSort \/ CwScan \/ CwFinish

SpecCombine == InitCombine /\ [][NextCombine]_vars

\* muscato_window_reads alone, over every list of windows.
InitWin ==
    /\ \E ws \in WindowChoices, d \in MinDinucChoices :
         config = [ConfigDefault EXCEPT !.Windows = ws, !.MinDinuc = d]
    /\ InInit /\ WrInit /\ UqIdle /\ CwIdle /\ ScIdle /\ CfIdle /\ DrvInit
    /\ ExtIdle

NextWin == WrScan \/ WrCheck

SpecWin == InitWin /\ [][NextWin]_vars

\* muscato_confirm alone, over streams of well-formed lines in any order.
MaxJoinLines == 2

JoinKeys == {<<chA, chA>>, <<chA, chC>>}
JoinSourceLines == {JoinTab(<<key, <<>>, <<chA>>>>) : key \in JoinKeys}
JoinMatchLines ==
    {JoinTab(<<key, <<>>, <<b>>, GeneId(0), Itoa(0)>>) : key \in JoinKeys, b \in Bases}

InitJoin ==
    /\ \E p \in PMatchChoices, mm \in MatchModeChoices :
         config = [ConfigDefault EXCEPT !.Windows = <<0>>, !.PMatch = p,
                                        !.MatchMode = mm]
    /\ \E ns \in 0..MaxJoinLines, nm \in 0..MaxJoinLines :
         \E src \in [1..ns -> JoinSourceLines], mat \in [1..nm -> JoinMatchLines] :
            /\ winSorted = <<src>>
            /\ smatch = <<mat>>
            /\ source = NewBreader(src, "source")
            /\ match = NewBreader(mat, "match")
    /\ stage = "confirm"
    /\ cfWin = 1 /\ cfPc = "start" /\ cfPanic = FALSE
    /\ limit = 0 /\ workers = <<>> /\ rsltChan = <<>> /\ rsltClosed = FALSE
    /\ hvPc = "none" /\ outBuf = <<>> /\ rmatch = << <<>> >>
    /\ UqIdle /\ CwIdle /\ InIdle /\ WrIdle /\ ScIdle /\ ExtIdle

NextJoin ==
    \/ CfStart \/ CfLoop \/ WkSend \/ WkExit \/ HvWrite \/ HvEnd
    \/ CfShutdown \/ CfExit \/ DrvConfirmNext \/ DrvFail

SpecJoin == InitJoin /\ [][NextJoin]_vars

\* The pipeline from the read table and the targets to the verified
\* matches of every window.
InitPipe(cfg) ==
    /\ \E d \in MinDinucChoices, p \in PMatchChoices, mm \in MatchModeChoices :
         config = [cfg EXCEPT !.MinDinuc = d, !.PMatch = p, !.MatchMode = mm]
    /\ WrInit /\ ScInit /\ CfIdle /\ DrvInit /\ UqIdle /\ CwIdle /\ ExtIdle

Init == InInit /\ InitPipe(ConfigDefault)

Next ==
    \/ WrScan \/ WrCheck \/ DrvSortWindows
    \/ ScBuildBloom \/ ScProcessSeq \/ ScFinish \/ DrvSortBloom
    \/ CfStart \/ CfLoop \/ WkSend \/ WkExit \/ HvWrite \/ HvEnd
    \/ CfShutdown \/ CfExit \/ DrvConfirmNext \/ DrvFail

Spec == Init /\ [][Next]_vars

\* The pipeline over one read and one target of a single base with a
\* window of 50 bases, reads of up to 51 bases and no cut of the matches
\* of a key.
LongReadLens == {50, 51}
LongTargetLens == {51, 52}
LongSeq(n) == [i \in 1..n |-> chA]

ConfigLong ==
    [ConfigDefault EXCEPT !.Windows = <<0>>, !.WindowWidth = 50,
                          !.MaxReadLength = 51, !.MaxMatches = 1000]

InitLong ==
    /\ \E n \in LongReadLens : readTable = <<ReadLine(LongSeq(n))>>
    /\ \E n \in LongTargetLens : geneFile = <<LongSeq(n)>>
    /\ InitPipe(ConfigLong)

SpecLong == InitLong /\ [][Next]_vars

\* muscato_confirm alone over two sorted streams with one key more than
\* limit has room for, or over two empty streams.  The read of the first
\* key matches its candidate, the reads of the other keys do not.
LimitKey(i) == <<chA + ((i - 1) \div 11), chA + ((i - 1) % 11)>>
LimitSource(n) == [i \in 1..n |-> JoinTab(<<LimitKey(i), <<>>, <<chA>>>>)]
LimitMatch(n) ==
    [i \in 1..n |-> JoinTab(<<LimitKey(i), <<>>, <<IF i = 1 THEN chA ELSE chC>>,
                               GeneId(0), Itoa(0)>>)]

InitLimit ==
    /\ config = [ConfigDefault EXCEPT !.Windows = <<0>>,
                                      !.PMatch = [num |-> 1, den |-> 1]]
    /\ \E n \in {0, concurrency + 1} :
         /\ winSorted = <<LimitSource(n)>>
         /\ smatch = <<LimitMatch(n)>>
         /\ source = NewBreader(LimitSource(n), "source")
         /\ match = NewBreader(LimitMatch(n), "match")
    /\ stage = "confirm"
    /\ cfWin = 1 /\ cfPc = "start" /\ cfPanic = FALSE
    /\ limit = 0 /\ workers = <<>> /\ rsltChan = <<>> /\ rsltClosed = FALSE
    /\ hvPc = "none" /\ outBuf = <<>> /\ rmatch = << <<>> >>
    /\ UqIdle /\ CwIdle /\ InIdle /\ WrIdle /\ ScIdle /\ ExtIdle

SpecLimit == InitLimit /\ [][NextJoin]_vars

\* muscato_confirm alone over two sorted streams of distinct lines with
\* one key, with room for one or two matches per key.
BestSourceLines == {JoinTab(<<<<chA, chA>>, <<>>, <<b>>>>) : b \in Bases}
BestMatchLines ==
    {JoinTab(<<<<chA, chA>>, <<>>, <<chA>>, GeneId(0), Itoa(0)>>),
     JoinTab(<<<<chA, chA>>, <<>>, <<chC>>, GeneId(0), Itoa(1)>>)}
MaxMatchesChoices == {1, 2}

\* The lines of set S in bytewise order.
RECURSIVE SortedSeqOf(_)
SortedSeqOf(S) ==
    IF S = {} THEN <<>>
    ELSE LET x == CHOOSE y \in S : \A z \in S : BytesCompare(y, z) <= 0
         IN <<x>> \o SortedSeqOf(S \ {x})

InitBest ==
    /\ \E mx \in MaxMatchesChoices, mm \in MatchModeChoices :
         config = [ConfigDefault EXCEPT !.Windows = <<0>>, !.MaxMatches = mx,
                                        !.MatchMode = mm]
    /\ \E S \in SUBSET BestSourceLines, M \in SUBSET BestMatchLines :
         /\ winSorted = <<SortedSeqOf(S)>>
         /\ smatch = <<SortedSeqOf(M)>>
         /\ source = NewBreader(SortedSeqOf(S), "source")
         /\ match = NewBreader(SortedSeqOf(M), "match")
    /\ stage = "confirm"
    /\ cfWin = 1 /\ cfPc = "start" /\ cfPanic = FALSE
    /\ limit = 0 /\ workers = <<>> /\ rsltChan = <<>> /\ rsltClosed = FALSE
    /\ hvPc = "none" /\ outBuf = <<>> /\ rmatch = << <<>> >>
    /\ UqIdle /\ CwIdle /\ InIdle /\ WrIdle /\ ScIdle /\ ExtIdle

SpecBest == InitBest /\ [][NextJoin]_vars

\* The pipeline over the read GGGGACGTACGT and one target of 12 bases
\* whose first four bases all differ from the read's and whose last eight
\* are the read's, with windows at 0 and 4 of width 4 and PMatch = 3/4.
RecoveryRead == <<chG, chG, chG, chG, chA, chC, chG, chT, chA, chC, chG, chT>>
RecoveryTargets ==
    {pre \o Slice(RecoveryRead, 4, 12) : pre \in [1..4 -> {chA, chC, chT}]}
BloomSizeChoices == {2, 64}
RecoveryPMatch == [num |-> 3, den |-> 4]
RecoveryPMatchChoices == {RecoveryPMatch, [num |-> 1, den |-> 2]}

ConfigRecovery ==
    [ConfigDefault EXCEPT !.Windows = <<0, 4>>, !.WindowWidth = 4,
                          !.MaxReadLength = 12, !.MaxMatches = 10,
                          !.PMatch = RecoveryPMatch]

InitRecovery ==
    /\ readTable = <<ReadLine(RecoveryRead)>>
    /\ \E t \in RecoveryTargets : geneFile = <<t>>
    /\ \E b \in BloomSizeChoices, mm \in MatchModeChoices,
          pm \in RecoveryPMatchChoices :
         config = [ConfigRecovery EXCEPT !.BloomSize = b, !.MatchMode = mm,
                                         !.PMatch = pm]
    /\ WrInit /\ ScInit /\ CfIdle /\ DrvInit /\ UqIdle /\ CwIdle /\ ExtIdle

SpecRecovery == InitRecovery /\ [][Next]_vars

\* muscato_prep_reads alone, over fastq files of whole records, with or
\* without lines of an unfinished record at the end.
MaxPrRecords == 2
PrBytes == {chA, chT, chN}
PrRawSeqs == SeqsOf(PrBytes, 0, 3)
PrNameLine == <<64, chX>>
PrPlusLine == <<43>>
PrQualLine(seq) == [i \in 1..Len(seq) |-> 73]
MinReadLengthChoices == {1, 2}
MaxReadLengthChoices == {2, 3}
PrTrailing == {<<>>, <<PrNameLine, <<chA, chA, chA>>>>}

RECURSIVE FastqLines(_)
FastqLines(rs) ==
    IF rs = <<>> THEN <<>>
    ELSE <<PrNameLine, Head(rs), PrPlusLine, PrQualLine(Head(rs))>>
            \o FastqLines(Tail(rs))

InitPrep ==
    /\ \E mn \in MinReadLengthChoices, mx \in MaxReadLengthChoices :
         config = [ConfigDefault EXCEPT !.MinReadLength = mn, !.MaxReadLength = mx]
    /\ \E n \in 0..MaxPrRecords :
         \E rs \in [1..n -> PrRawSeqs], tr \in PrTrailing :
            PrInit(FastqLines(rs) \o tr)
    /\ UqIdle /\ CwIdle /\ InIdle /\ WrIdle /\ ScIdle /\ CfIdle /\ DrvIdle
    /\ WfIdle /\ SfIdle /\ CoIdle /\ Ext2Idle

NextPrep == PrSkip \/ PrEmit \/ PrEnd

SpecPrep == InitPrep /\ [][NextPrep]_vars

\* muscato_screen goroutine by goroutine, over the read table and two
\* targets.
ScreenTargetSeqs == SeqsOf(Bases, 3, 3)
MaxScreenTargets == 2

InitScreen ==
    /\ \E ws \in WindowChoices :
         config = [ConfigDefault EXCEPT !.Windows = ws]
    /\ \E n \in 0..MaxReads :
         \E rs \in [1..n -> ReadSeqs] :
            /\ \A i \in 1..(n - 1) : BytesCompare(rs[i], rs[i + 1]) < 0
            /\ readTable = [i \in 1..n |-> ReadLine(rs[i])]
    /\ geneFile \in [1..MaxScreenTargets -> ScreenTargetSeqs]
    /\ ScInit /\ SfInit
    /\ stage = "screen" /\ winSorted = <<>> /\ smatch = <<>>
    /\ UqIdle /\ CwIdle /\ WrIdle /\ CfIdle /\ WfIdle /\ PrIdle /\ CoIdle
    /\ Ext2Idle

NextScreen ==
    \/ BbScan \/ BbInsert \/ BbClose \/ BbWorkerExit \/ BbWait
    \/ SrDispatch \/ PsSend \/ PsExit \/ SrClose
    \/ ScHarvest \/ ScHarvestExit \/ SrDone

SpecScreen == InitScreen /\ [][NextScreen]_vars

\* The confirm stage of the driver alone.
RoundWindowChoices == {<<0>>, <<0, 1>>, <<0, 1, 2>>}
MaxConfirmProcsChoices == {0, 1, 2, 3, 4}

InitRounds ==
    /\ \E ws \in RoundWindowChoices, n \in MaxConfirmProcsChoices :
         config = [ConfigDefault EXCEPT !.Windows = ws, !.MaxConfirmProcs = n]
    /\ CoInit
    /\ UqIdle /\ CwIdle /\ InIdle /\ WrIdle /\ ScIdle /\ CfIdle /\ DrvIdle
    /\ WfIdle /\ PrIdle /\ SfIdle /\ Ext2Idle

NextRounds ==
    \/ CoRound \/ CoReturn \/ CoStart \/ CoStartFail \/ CoStarted
    \/ CoProcExit \/ CoWait

SpecRounds == InitRounds /\ [][NextRounds]_vars

\* The search of muscato_screen over targets of one window each, after
\* buildBloom has run over an empty read table; the workers of some of
\* the targets meet an error.
ErrTargetCounts == {2, screenConcurrency + 1}
ErrTarget == <<chA, chA>>

InitScanErr ==
    /\ config = [ConfigDefault EXCEPT !.Windows = <<0>>]
    /\ readTable = <<>>
    /\ \E n \in ErrTargetCounts :
         /\ geneFile = [t \in 1..n |-> ErrTarget]
         /\ seFail \in {{}, {1}, {n}, 1..n}
    /\ scPc = "search"
    /\ smp = [k \in 1..Len(config.Windows) |-> {}]
    /\ scTodo = 1..Len(geneFile)
    /\ bmatch = [k \in 1..Len(config.Windows) |-> <<>>]
    /\ bbRest = <<>>
    /\ wc = [k \in 1..Len(config.Windows) |-> <<>>]
    /\ wcClosed = TRUE
    /\ bbWorker = [k \in 1..Len(config.Windows) |-> "done"]
    /\ bbWriters = [k \in 1..Len(config.Windows) |-> {}]
    /\ psQueue = [t \in 1..Len(geneFile) |-> <<>>]
    /\ psRun = {} /\ scLimit = 0
    /\ hitchan = [k \in 1..Len(config.Windows) |-> <<>>]
    /\ hitClosed = FALSE /\ hvDone = {}
    /\ errc = <<>> /\ seFirst = <<>> /\ seFatal = <<>>
    /\ PtIdle /\ NmIdle /\ JnIdle /\ CdIdle /\ CnIdle /\ BrIdle /\ SdIdle /\ HfIdle /\ CpIdle /\ HqIdle
    /\ stage = "screen" /\ winSorted = <<>> /\ smatch = <<>>
    /\ UqIdle /\ CwIdle /\ WrIdle /\ CfIdle /\ WfIdle /\ PrIdle /\ CoIdle

NextScanErr ==
    \/ SeDispatch \/ SeReport \/ SePass \/ SeFatal \/ SeClose
    \/ ScHarvestExit \/ SrDone

SpecScanErr == InitScanErr /\ [][NextScanErr]_vars

\* muscato_prep_targets alone, over text files and FASTA files of up to
\* MaxPtLines lines, with and without -rev.
MaxPtLines == 4
PtName == <<110>>
PtTextLines ==
    {JoinTab(<<PtName, seq>>) : seq \in SeqsOf({chA, chN}, 0, 2)} \cup {<<>>, PtName}
PtFastaLines == {<<chGt>> \o PtName, <<chA>>, <<chN>>, <<>>}

InitTargets ==
    /\ config = ConfigDefault
    /\ \E n \in 0..MaxPtLines, isfasta \in BOOLEAN, rev \in BOOLEAN :
         \E file \in [1..n -> IF isfasta THEN PtFastaLines ELSE PtTextLines] :
            PtInit(file, isfasta, rev)
    /\ SeIdle /\ NmIdle /\ JnIdle /\ CdIdle /\ CnIdle /\ BrIdle /\ SdIdle /\ HfIdle /\ CpIdle /\ HqIdle
    /\ UqIdle /\ CwIdle /\ InIdle /\ WrIdle /\ ScIdle /\ CfIdle /\ DrvIdle
    /\ WfIdle /\ PrIdle /\ SfIdle /\ CoIdle

NextTargets ==
    \/ PtTextBlank \/ PtTextBad \/ PtTextWrite \/ PtTextEnd
    \/ PtFastaBlank \/ PtFastaHeader \/ PtFastaSeq \/ PtFastaEnd

SpecTargets == InitTargets /\ [][NextTargets]_vars

\* muscato_nonmatch alone: a read table of distinct sequences in sorted
\* order, a results file of up to MaxNmResults lines, and every assignment
\* of up to NmHashes of NmBits bit positions to the sequences.
MaxNmResults == 2
NmBits == 3
NmHashes == 2
NmSeqs == <<<<chA>>, <<chC>>>>
NmKeys == Range(NmSeqs)
NmLocs == {b \in SUBSET (0..(NmBits - 1)) : Cardinality(b) \in 1..NmHashes}
NmReadLine(i) == JoinTab(<<NmSeqs[i], Itoa(i), <<110>> >>)
NmResultLine(key) == JoinTab(<<key, <<chT>> >>)

InitNonmatch ==
    /\ config = ConfigDefault
    /\ \E n \in 0..MaxNmResults, pick \in SUBSET (1..Len(NmSeqs)) :
         \E res \in [1..n -> NmKeys], loc \in [NmKeys -> NmLocs] :
            NmInit([i \in 1..n |-> NmResultLine(res[i])],
                   [j \in 1..Cardinality(pick) |->
                       NmReadLine(CHOOSE i \in pick :
                                     Cardinality({h \in pick : h < i}) = j - 1)],
                   loc)
    /\ SeIdle /\ PtIdle /\ JnIdle /\ CdIdle /\ CnIdle /\ BrIdle /\ SdIdle /\ HfIdle /\ CpIdle /\ HqIdle
    /\ UqIdle /\ CwIdle /\ InIdle /\ WrIdle /\ ScIdle /\ CfIdle /\ DrvIdle
    /\ WfIdle /\ PrIdle /\ SfIdle /\ CoIdle

NextNonmatch == NmAdd \/ NmOpen \/ NmSkip \/ NmWrite \/ NmEnd

SpecNonmatch == InitNonmatch /\ [][NextNonmatch]_vars

\* The two joins alone: MaxJnTargets targets in the id file, a read table
\* of MaxJnReads reads, and any set of matches between them.
MaxJnTargets == 2
MaxJnReads == 2
JnReadSeq(r) == [i \in 1..r |-> chA]
JnTargetNames == {<<110>>, <<110>> \o SuffixR}
JnMatchLine(r, t) ==
    JoinTab(<<JnReadSeq(r), JnReadSeq(r), Itoa(t), Itoa(0), ZeroPad(Itoa(t - 1), 11)>>)
\* sort -k5: the matches in the order of the target id, then of the line.
JnSortedMatches(S) ==
    LET ByTarget(t) == SortedSeqOf({JnMatchLine(p[1], p[2]) : p \in {q \in S : q[2] = t}})
        RECURSIVE Upto(_)
        Upto(t) == IF t = 0 THEN <<>> ELSE Upto(t - 1) \o ByTarget(t)
    IN Upto(MaxJnTargets)

InitJoins ==
    /\ config = ConfigDefault
    /\ \E S \in SUBSET ((1..MaxJnReads) \X (1..MaxJnTargets)),
          nam \in [1..MaxJnTargets -> JnTargetNames],
          mult \in [1..MaxJnReads -> 1..2] :
         /\ matchesSg = JnSortedMatches(S)
         /\ geneIdFile = [t \in 1..MaxJnTargets |-> IdLine(t - 1, nam[t], t + 2)]
         /\ readTable = [r \in 1..MaxJnReads |->
                            JoinTab(<<JnReadSeq(r), Itoa(mult[r]), <<114>> >>)]
    /\ geneFile = <<>>
    /\ jnPc = "genes" /\ matchesSn = <<>> /\ results = <<>>
    /\ SeIdle /\ PtIdle /\ NmIdle /\ CdIdle /\ CnIdle /\ BrIdle /\ SdIdle /\ HfIdle /\ CpIdle /\ HqIdle
    /\ UqIdle /\ CwIdle /\ WrIdle /\ ScIdle /\ CfIdle /\ DrvIdle
    /\ WfIdle /\ PrIdle /\ SfIdle /\ CoIdle

NextJoins == JoinGeneNames \/ JoinReadNames

SpecJoins == InitJoins /\ [][NextJoins]_vars

\* CountDinuc alone: windows of up to MaxCdLen bytes over A, T and N, the
\* scratch array fresh from make or holding the counts of earlier use.
CdWindows == SeqsOf({chA, chT, chN}, 0, MaxCdLen)

InitDinuc ==
    /\ config = ConfigDefault
    /\ readTable = <<>> /\ geneFile = <<>>
    /\ cdSeq = <<>> /\ cdRet = 0 /\ cdCalls = 0
    /\ cdWk \in {NewWk, [k \in 1..25 |-> 1]}
    /\ SeIdle /\ PtIdle /\ NmIdle /\ JnIdle /\ CnIdle /\ BrIdle /\ SdIdle /\ HfIdle /\ CpIdle /\ HqIdle
    /\ UqIdle /\ CwIdle /\ WrIdle /\ ScIdle /\ CfIdle /\ DrvIdle
    /\ WfIdle /\ PrIdle /\ SfIdle /\ CoIdle

CdStep == \E seq \in CdWindows : CdCall(seq)

NextDinuc == CdStep

SpecDinuc == InitDinuc /\ [][NextDinuc]_vars

\* muscato_screen goroutine by goroutine, with a cancel signal that may be
\* raised at any moment of the search.
NextCancel ==
    \/ BbScan \/ BbInsert \/ BbClose \/ BbWorkerExit \/ BbWait
    \/ SrDispatch \/ PsSend \/ PsExit \/ SrClose
    \/ ScHarvest \/ ScHarvestExit \/ SrDone
    \/ RaiseCancel

SpecCancel == InitScreen /\ [][NextCancel]_vars

\* breader.Next alone: files of up to MaxBrLines lines over two keys, in
\* any order, every line different from the others.
BrKeys == {<<chA>>, <<chC>>}

InitBreader ==
    /\ config = ConfigDefault
    /\ readTable = <<>> /\ geneFile = <<>>
    /\ \E n \in 0..MaxBrLines :
         \E ks \in [1..n -> BrKeys] :
            /\ brInput = [i \in 1..n |-> JoinTab(<<ks[i], Itoa(i)>>)]
            /\ brB = NewBreader([i \in 1..n |-> JoinTab(<<ks[i], Itoa(i)>>)], "source")
    /\ brOk = FALSE /\ brCalls = 0 /\ brBlocks = <<>>
    /\ SeIdle /\ PtIdle /\ NmIdle /\ JnIdle /\ CdIdle /\ CnIdle /\ SdIdle /\ HfIdle /\ CpIdle /\ HqIdle
    /\ UqIdle /\ CwIdle /\ WrIdle /\ ScIdle /\ CfIdle /\ DrvIdle
    /\ WfIdle /\ PrIdle /\ SfIdle /\ CoIdle

NextBreader == BrNext

SpecBreader == InitBreader /\ [][NextBreader]_vars

\* One muscato_confirm process from its start to its end, the deferred
\* call taken send by send; the streams hold up to MaxJoinLines lines.
ShutdownMatchLines ==
    {JoinTab(<<key, <<>>, <<chA>>, GeneId(0), Itoa(0)>>) : key \in JoinKeys}

InitShutdown ==
    /\ config = [ConfigDefault EXCEPT !.Windows = <<0>>]
    /\ \E ns \in 0..MaxJoinLines, nm \in 0..MaxJoinLines :
         \E src \in [1..ns -> JoinSourceLines], mat \in [1..nm -> ShutdownMatchLines] :
            /\ winSorted = <<src>>
            /\ smatch = <<mat>>
            /\ source = NewBreader(src, "source")
            /\ match = NewBreader(mat, "match")
    /\ stage = "confirm"
    /\ cfWin = 1 /\ cfPc = "start" /\ cfPanic = FALSE
    /\ limit = 0 /\ workers = <<>> /\ rsltChan = <<>> /\ rsltClosed = FALSE
    /\ hvPc = "none" /\ outBuf = <<>> /\ rmatch = << <<>> >>
    /\ UqIdle /\ CwIdle /\ InIdle /\ WrIdle /\ ScIdle /\ ExtIdle

NextShutdown ==
    \/ CfStart \/ CfLoop \/ WkSend \/ WkExit \/ HvWrite \/ HvEnd
    \/ CfFillStep \/ CfClose \/ CfExit

SpecShutdown == InitShutdown /\ [][NextShutdown]_vars

\* main can take its next step: the first reads, an iteration of the merge
\* loop (one that starts a worker needs room in limit), a send of the
\* deferred call, the close, the end.
MainCanStep ==
    /\ stage = "confirm"
    /\ \/ cfPc = "start"
       \/ /\ cfPc = "loop"
          /\ \/ Len(source.recs) = 0 \/ Len(match.recs) = 0
             \/ source.recs[1].fields[1] # match.recs[1].fields[1]
             \/ LimitHasRoom
       \/ ENABLED (CfFillStep \/ CfClose \/ CfExit)

MainStep == CfStart \/ CfLoop \/ CfFillStep \/ CfClose \/ CfExit

\* The same process under a fair scheduler: main, the workers and the
\* harvest goroutine each take a next step when one stays possible.  For
\* main the condition is weak fairness of MainStep written out, its
\* enabling condition given by MainCanStep.
FairShutdown ==
    /\ ([]<>(~MainCanStep)) \/ ([]<><<MainStep>>_vars)
    /\ WF_vars(WkSend \/ WkExit)
    /\ WF_vars(HvWrite \/ HvEnd)

SpecShutdownFair == InitShutdown /\ [][NextShutdown]_vars /\ FairShutdown

\* The search of muscato_screen from its first target to its return, the
\* filters built from one read; limit is filled send by send.
HfWindowChoices == {<<0>>, <<0, 1>>}
HfReadSeqs == {<<chA, chC, chA>>, <<chC, chA, chC>>}
HfTargetSeqs == {<<chA, chC, chA>>, <<chC, chA, chA>>}

InitHarvest ==
    /\ \E ws \in HfWindowChoices : config = [ConfigDefault EXCEPT !.Windows = ws]
    /\ \E rs \in HfReadSeqs : readTable = <<ReadLine(rs)>>
    /\ geneFile \in [1..MaxScreenTargets -> HfTargetSeqs]
    /\ scPc = "search"
    /\ smp = [k \in 1..Len(config.Windows) |-> buildBloom(k)]
    /\ scTodo = 1..Len(geneFile)
    /\ bmatch = [k \in 1..Len(config.Windows) |-> <<>>]
    /\ bbRest = <<>>
    /\ wc = [k \in 1..Len(config.Windows) |-> <<>>]
    /\ wcClosed = TRUE
    /\ bbWorker = [k \in 1..Len(config.Windows) |-> "done"]
    /\ bbWriters = [k \in 1..Len(config.Windows) |-> {}]
    /\ psQueue = [t \in 1..Len(geneFile) |-> <<>>]
    /\ psRun = {} /\ scLimit = 0
    /\ hitchan = [k \in 1..Len(config.Windows) |-> <<>>]
    /\ hitClosed = FALSE /\ hvDone = {}
    /\ Ext2Idle
    /\ stage = "screen" /\ winSorted = <<>> /\ smatch = <<>>
    /\ UqIdle /\ CwIdle /\ WrIdle /\ CfIdle /\ WfIdle /\ PrIdle /\ CoIdle

NextHarvest ==
    \/ SrDispatch \/ PsSend \/ PsExit \/ SrFillStep \/ SrCloseFilled
    \/ ScHarvest \/ ScHarvestExit \/ SrDone

SpecHarvest == InitHarvest /\ [][NextHarvest]_vars

\* The merge loop of muscato_confirm and its workers, with the memory of
\* the blocks.
InitCopy ==
    /\ config = [ConfigDefault EXCEPT !.Windows = <<0>>]
    /\ \E ns \in 1..MaxJoinLines, nm \in 1..MaxJoinLines :
         \E src \in [1..ns -> JoinSourceLines], mat \in [1..nm -> ShutdownMatchLines] :
            /\ winSorted = <<src>>
            /\ smatch = <<mat>>
            /\ source = NewBreader(src, "source")
            /\ match = NewBreader(mat, "match")
    /\ stage = "confirm"
    /\ cfWin = 1 /\ cfPc = "start" /\ cfPanic = FALSE
    /\ limit = 0 /\ workers = <<>> /\ rsltChan = <<>> /\ rsltClosed = FALSE
    /\ hvPc = "none" /\ outBuf = <<>> /\ rmatch = << <<>> >>
    /\ cpArrs = <<>> /\ cpCur = [source |-> 0, match |-> 0] /\ cpWorkers = <<>>
    /\ SeIdle /\ PtIdle /\ NmIdle /\ JnIdle /\ CdIdle /\ CnIdle /\ BrIdle /\ SdIdle /\ HfIdle /\ HqIdle
    /\ UqIdle /\ CwIdle /\ InIdle /\ WrIdle /\ ScIdle
    /\ WfIdle /\ PrIdle /\ SfIdle /\ CoIdle

NextCopy == CpStart \/ CpLoop \/ CpWorkerRead \/ CpWorkerExit

SpecCopy == InitCopy /\ [][NextCopy]_vars

\* The queue of one window key under up to MaxHqInserts confirmed matches.
InitHeap ==
    /\ \E mx \in HqMaxMatchesChoices :
         config = [ConfigDefault EXCEPT !.MaxMatches = mx, !.MatchMode = "best"]
    /\ hqQ = <<>> /\ hqAll = <<>>
    /\ SeIdle /\ PtIdle /\ NmIdle /\ JnIdle /\ CdIdle /\ CnIdle /\ BrIdle /\ SdIdle /\ HfIdle /\ CpIdle
    /\ UqIdle /\ CwIdle /\ InIdle /\ WrIdle /\ ScIdle /\ CfIdle /\ DrvIdle
    /\ WfIdle /\ PrIdle /\ SfIdle /\ CoIdle

NextHeap == HqInsert

SpecHeap == InitHeap /\ [][NextHeap]_vars

\* muscato_window_reads and the filters of muscato_screen over the same
\* read table: up to MaxKeyReads reads of three or four bases, windows of
\* three bases at 0 and 1.
MaxKeyReads == 2
KeyReadSeqs == SeqsOf(Bases, 3, 4)
KeyTarget == <<chA, chC, chA, chC>>

InitKeys ==
    /\ \E d \in MinDinucChoices :
         config = [ConfigDefault EXCEPT !.WindowWidth = 3, !.MaxReadLength = 4,
                                        !.BloomSize = 64, !.MinDinuc = d]
    /\ \E n \in 1..MaxKeyReads :
         \E rs \in [1..n -> KeyReadSeqs] :
            /\ \A i \in 1..(n - 1) : BytesCompare(rs[i], rs[i + 1]) < 0
            /\ readTable = [i \in 1..n |-> ReadLine(rs[i])]
    /\ geneFile = <<KeyTarget>>
    /\ WrInit /\ ScInit /\ CfIdle /\ DrvInit /\ UqIdle /\ CwIdle /\ ExtIdle

NextKeys == WrScan \/ WrCheck \/ DrvSortWindows \/ DrvFail \/ ScBuildBloom

SpecKeys == InitKeys /\ [][NextKeys]_vars

\* The workflow driver alone.
InitWorkflow ==
    /\ config = ConfigDefault
    /\ WfInit
    /\ UqIdle /\ CwIdle /\ InIdle /\ WrIdle /\ ScIdle /\ CfIdle /\ DrvIdle
    /\ PrIdle /\ SfIdle /\ CoIdle /\ Ext2Idle

NextWorkflow ==
    \/ RunRegister \/ RunSortByGeneId \/ RunSortByGeneIdWait \/ RunRegisterJoins
    \/ WfRun \/ WfProcStart \/ WfProcEnd \/ WfDone

SpecWorkflow == InitWorkflow /\ [][NextWorkflow]_vars

\* ---- Shared by the properties of the pipeline ----------------------------

\* The number of positions at which two strings of one length differ.
Hamming(x, y) == Cardinality({i \in 1..Len(x) : x[i] # y[i]})

\* floor((1 - PMatch) * n).
FloorShare(n) ==
    ((config.PMatch.den - config.PMatch.num) * n) \div config.PMatch.den

\* The sequence of read i of the read table and of target g.
ReadSeqOf(i) == Fields(readTable[i])[1]
TargetSeqOf(g) == SplitTab(geneFile[g])[1]

\* The window key of read sequence r at window k, and whether window
\* k of r exists and passes the entropy gate.
WindowKeyOf(r, k) ==
    Slice(r, config.Windows[k], config.Windows[k] + config.WindowWidth)
WindowAccepted(r, k) ==
    /\ Len(r) >= config.Windows[k] + config.WindowWidth
    /\ CountDinuc(WindowKeyOf(r, k), NewWk) >= config.MinDinuc

\* The fields of a verified match line.
MtRead(line) == SplitTab(line)[1]
MtAligned(line) == SplitTab(line)[2]
MtOffset(line) == Atoi(SplitTab(line)[3])
MtMismatch(line) == Atoi(SplitTab(line)[4])
MtTarget(line) == Atoi(SplitTab(line)[5]) + 1

\* The fields of a candidate hit line.
HtKey(line) == SplitTab(line)[1]
HtLeft(line) == SplitTab(line)[2]
HtRight(line) == SplitTab(line)[3]
HtTarget(line) == Atoi(SplitTab(line)[4]) + 1
HtPos(line) == Atoi(SplitTab(line)[5])

\* ---- C1 ----------------------------------------------------------------

\* C1: every match record muscato_confirm has written has an aligned
\* target of exactly the read's length, a mismatch count equal to the
\* number of positions at which the read differs from the aligned target,
\* and a mismatch count of at most floor((1 - PMatch) * read length).
C1_MatchRecordSound ==
    \A n \in 1..Len(outBuf) :
        /\ Len(MtAligned(outBuf[n])) = Len(MtRead(outBuf[n]))
        /\ MtMismatch(outBuf[n]) = Hamming(MtRead(outBuf[n]), MtAligned(outBuf[n]))
        /\ MtMismatch(outBuf[n]) <= FloorShare(Len(MtRead(outBuf[n])))

\* A match with one mismatch has been written, at the one mismatch that
\* half of a read of three bases allows.
C1_Witness ==
    \E n \in 1..Len(outBuf) :
        /\ MtMismatch(outBuf[n]) = 1
        /\ FloorShare(Len(MtRead(outBuf[n]))) = 1

\* ---- C2 ----------------------------------------------------------------

\* The lines written so far by the running muscato_confirm whose read has
\* window key key.
MatchesOfKey(key) ==
    {n \in 1..Len(outBuf) : WindowKeyOf(MtRead(outBuf[n]), cfWin) = key}

\* C2: in the verified stream of a window no window key has more than
\* MaxMatches matches, in either match mode.
C2_MaxMatchesPerKey ==
    \A n \in 1..Len(outBuf) :
        Cardinality(MatchesOfKey(WindowKeyOf(MtRead(outBuf[n]), cfWin)))
            <= config.MaxMatches

\* ---- C3 ----------------------------------------------------------------

\* Read i lies within the allowed distance of target g at offset toff.
WithinBound(i, g, toff) ==
    /\ toff + Len(ReadSeqOf(i)) <= Len(TargetSeqOf(g))
    /\ Hamming(ReadSeqOf(i),
               Slice(TargetSeqOf(g), toff, toff + Len(ReadSeqOf(i))))
          <= FloorShare(Len(ReadSeqOf(i)))

\* Some verified stream holds a match of read i to target g at toff.
MatchProduced(i, g, toff) ==
    \E k \in 1..Len(rmatch) : \E n \in 1..Len(rmatch[k]) :
        /\ MtRead(rmatch[k][n]) = ReadSeqOf(i)
        /\ MtTarget(rmatch[k][n]) = g
        /\ MtOffset(rmatch[k][n]) = toff

\* C3: when the verification of every window has ended, every read, target
\* and offset within the allowed distance, with a window of the read that
\* passes the entropy gate, has a match in some verified stream.
C3_VerifierComplete ==
    stage = "done" =>
        \A i \in 1..Len(readTable), g \in 1..Len(geneFile) :
            \A toff \in 0..Len(TargetSeqOf(g)) :
                (/\ WithinBound(i, g, toff)
                 /\ \E k \in 1..Len(config.Windows) : WindowAccepted(ReadSeqOf(i), k))
                    => MatchProduced(i, g, toff)

\* ---- C4 ----------------------------------------------------------------

\* The window key of a line of either input stream.
KeyField(line) == SplitTab(line)[1]

\* C4: a muscato_confirm process that ends normally has read two streams
\* whose window keys never decrease.
C4_UnsortedStreamFatal ==
    cfPc = "exit" =>
        /\ KeySorted(winSorted[cfWin], KeyField)
        /\ KeySorted(smatch[cfWin], KeyField)

\* ---- C5 ----------------------------------------------------------------

\* Window k of read i is accepted and equals the window of target g that
\* starts at p, which is not before the window's offset.
TrueHit(i, g, k, p) ==
    /\ WindowAccepted(ReadSeqOf(i), k)
    /\ p >= config.Windows[k]
    /\ p + config.WindowWidth <= Len(TargetSeqOf(g))
    /\ Slice(TargetSeqOf(g), p, p + config.WindowWidth) = WindowKeyOf(ReadSeqOf(i), k)

C6_HitExtents ==
    \A k \in 1..Len(bmatch) : \A n \in 1..Len(bmatch[k]) :
        LET t == TargetSeqOf(HtTarget(bmatch[k][n]))
            p == HtPos(bmatch[k][n])
            q == config.Windows[k]
            w == config.WindowWidth
        IN /\ HtKey(bmatch[k][n]) = Slice(t, p, p + w)
           /\ HtLeft(bmatch[k][n]) = Slice(t, p - q, p)
           /\ HtRight(bmatch[k][n]) =
                 Slice(t, p + w, Min(p + w + (config.MaxReadLength - w - q), Len(t)))

\* ---- C7 ----------------------------------------------------------------

\* C7: every match written by the muscato_confirm of window offset q
\* comes from a candidate of its stream at position targetOffset + q of
\* the target it names, the offset is not negative, the read fits into the
\* target from the offset on, and the aligned target is
\* target[targetOffset : targetOffset + len(read)].
C7_AlignedTargetIsSlice ==
    \A n \in 1..Len(outBuf) :
        LET t == TargetSeqOf(MtTarget(outBuf[n]))
            toff == MtOffset(outBuf[n])
            len == Len(MtRead(outBuf[n]))
        IN /\ \E m \in 1..Len(smatch[cfWin]) :
                /\ HtTarget(smatch[cfWin][m]) = MtTarget(outBuf[n])
                /\ HtPos(smatch[cfWin][m]) - config.Windows[cfWin] = toff
           /\ 0 <= toff
           /\ toff + len <= Len(t)
           /\ MtAligned(outBuf[n]) = Slice(t, toff, toff + len)

\* The muscato_confirm of the window at offset 1 has written a match at
\* target offset 1, whose candidate lies at position 2.
C7_Witness ==
    /\ cfWin = 2
    /\ \E n \in 1..Len(outBuf) : MtOffset(outBuf[n]) = 1

\* ---- C8 ----------------------------------------------------------------

\* The read sequence and the mismatch count of a pooled match line.
CwReadOf(line) == SplitTab(line)[1]
CwNxOf(line) == Atoi(SplitTab(line)[4])

\* readMin: the least mismatch count among the pooled lines of read r.
CwReadMin(r) ==
    LET ns == {CwNxOf(l) : l \in {x \in Range(cwPool) : CwReadOf(x) = r}}
    IN CHOOSE y \in ns : \A z \in ns : y <= z

UqCount(q) == Cardinality({i \in 1..Len(uqInput) : uqInput[i].seq = q})

\* C9: for an input stream sorted by sequence, when muscato_uniqify is done
\* its output has exactly one record per distinct input sequence, each
\* record's multiplicity is the number of input lines carrying its sequence,
\* and no record's name list is longer than 1000 bytes.
C9_DedupCorrect ==
    uqPc = "done" =>
        /\ {uqOut[i].seq : i \in 1..Len(uqOut)} = {uqInput[i].seq : i \in 1..Len(uqInput)}
        /\ \A i, j \in 1..Len(uqOut) : uqOut[i].seq = uqOut[j].seq => i = j
        /\ \A i \in 1..Len(uqOut) : uqOut[i].mult = UqCount(uqOut[i].seq)
        /\ \A i \in 1..Len(uqOut) : uqOut[i].nalen <= NameListLimit

\* A finished run with a repeated sequence whose joined names overflowed
\* the limit and were truncated, and with a second distinct sequence.
C9_Witness ==
    /\ uqPc = "done"
    /\ Len(uqOut) >= 2
    /\ \E i \in 1..Len(uqOut) :
         /\ uqOut[i].mult >= 3
         /\ uqOut[i].nalen = NameListKeep + EllipsisLen

\* ---- C10 ---------------------------------------------------------------

\* C10: muscato_window_reads does not end normally when the windowed
\* stream of some configured offset is empty.
C10_EmptyWindowFatal ==
    wrPc = "done" => \A k \in 1..Len(winFile) : winFile[k] # <<>>

\* ---- C11 ---------------------------------------------------------------

\* The stages whose output stage p reads.
StageDeps(p) ==
    IF p[1] = "windowReads" THEN {<<"prepReads", 0>>}
    ELSE IF p[1] = "sortWindows" THEN {<<"windowReads", 0>>}
    ELSE IF p[1] = "sortBloom" THEN {<<"screen", 0>>}
    ELSE IF p[1] = "confirm" THEN {<<"sortWindows", p[2]>>, <<"sortBloom", p[2]>>}
    ELSE IF p[1] = "combineWindows" THEN PerWindow("confirm")
    ELSE IF p[1] \in {"sortByGeneId", "joinGeneNames", "joinReadNames"}
    THEN {<<"combineWindows", 0>>}
    ELSE {}

\* C11: every stage the driver has started reads only the output of
\* stages that have finished.
C11_DependencyOrder ==
    \A p \in wfStarted : StageDeps(p) \subseteq wfFinished

\* ---- C12 ---------------------------------------------------------------

\* The searchpairs goroutines that have been started and have not ended.
RunningWorkers == {w \in 1..Len(workers) : workers[w].state = "run"}

ConfirmedOf(w) ==
    {CheckPair(workers[w].match[i], workers[w].source[j])[1].gob :
        <<i, j>> \in {ij \in (1..Len(workers[w].match)) \X (1..Len(workers[w].source)) :
                        CheckPair(workers[w].match[ij[1]], workers[w].source[ij[2]]) # <<>>}}

\* C13: in best mode, when a muscato_confirm process has ended normally,
\* no match that was confirmed for a key and not written has fewer
\* mismatches than a match of that key that was written.
C13_BestKeepsFewest ==
    (cfPc = "exit" /\ config.MatchMode = "best") =>
        \A w \in 1..Len(workers) :
            \A d \in ConfirmedOf(w) \ Range(outBuf) :
                \A r \in ConfirmedOf(w) \cap Range(outBuf) :
                    MtMismatch(d) >= MtMismatch(r)

\* ---- C14 ---------------------------------------------------------------

\* The read a windowed read record was cut from and the target bases a
\* candidate hit record lines up with it.
SourceRead(srec) == srec.fields[2] \o srec.fields[1] \o srec.fields[3]
CandidateBases(mrec, srec) ==
    mrec.fields[2] \o mrec.fields[1]
        \o Slice(mrec.fields[3], 0, Min(Len(srec.fields[3]), Len(mrec.fields[3])))

\* C14 (amended): in the scenario, with PMatch = 3/4, no verification
\* writes a match, and
\* every pair the verification at offset 4 examines is the read against
\* target[0:12], which it rejects because the mismatches of the two tails,
\* four in the left tail, exceed floor(0.25 * 12) = 3.
C14_NoRecovery ==
    config.PMatch = RecoveryPMatch =>
    /\ outBuf = <<>>
    /\ \A k \in 1..Len(rmatch) : rmatch[k] = <<>>
    /\ cfWin = 2 =>
          \A w \in 1..Len(workers) :
              /\ workers[w].pending = <<>>
              /\ \A i \in 1..Len(workers[w].match), j \in 1..Len(workers[w].source) :
                    LET mrec == workers[w].match[i]
                        srec == workers[w].source[j]
                    IN (Len(CandidateBases(mrec, srec)) = Len(SourceRead(srec))) =>
                          /\ SourceRead(srec) = RecoveryRead
                          /\ CandidateBases(mrec, srec) = TargetSeqOf(1)
                          /\ Hamming(Slice(SourceRead(srec), 0, 4),
                                     Slice(CandidateBases(mrec, srec), 0, 4)) = 4
                          /\ Hamming(SourceRead(srec), CandidateBases(mrec, srec))
                                > FloorShare(Len(SourceRead(srec)))

\* The verification at offset 4 has ended normally after a worker
\* examined the candidates of key ACGT, and nothing was written.
C14_Witness ==
    /\ config.PMatch = RecoveryPMatch
    /\ stage = "done"
    /\ cfWin = 2
    /\ Len(workers) = 1
    /\ workers[1].source[1].fields[1] = Slice(RecoveryRead, 4, 8)
    /\ Len(workers[1].match) = 2
    /\ rmatch[2] = <<>>

\* C14 as stated: when the pipeline has ended, the verification at offset
\* 0 has written nothing and the one at offset 4 one match, without
\* mismatches.
C14_SingleRow ==
    (config.PMatch = RecoveryPMatch /\ stage \in {"done", "failed"}) =>
        /\ rmatch[1] = <<>>
        /\ Len(rmatch[2]) = 1
        /\ MtMismatch(rmatch[2][1]) = 0

\* ---- C15 ---------------------------------------------------------------

\* The reads muscato_window_reads has gone through so far.
WrSeen == 1..(Len(readTable) - Len(wrRest))

\* The number of distinct ordered pairs of adjacent base classes of a key.
DistinctPairs(key) ==
    Cardinality({<<DinucClass(key[i]), DinucClass(key[i + 1])>> :
                     i \in 1..(Len(key) - 1)})

\* Read r is long enough for the window at offset q and its key passes
\* the entropy gate.
WrEligible(r, q) ==
    /\ Len(r) >= q + config.WindowWidth
    /\ DistinctPairs(Slice(r, q, q + config.WindowWidth)) >= config.MinDinuc

\* Line l of a windowed read stream is the record of read r at offset q.
WrRecordOf(l, r, q) ==
    LET f == SplitTab(l)
    IN /\ Len(f) = 3
       /\ Len(f[1]) = config.WindowWidth
       /\ Len(f[2]) = q
       /\ f[2] \o f[1] \o f[3] = r

PrSeenRaw == [r \in 1..(prPos \div 4) |-> prFile[4 * (r - 1) + 2]]

\* The raw sequence with every byte other than A, T, G, C replaced by X,
\* cut to MaxReadLength.
PrNormal(raw) ==
    [i \in 1..Min(Len(raw), config.MaxReadLength) |->
        IF raw[i] \in {chA, chT, chG, chC} THEN raw[i] ELSE chX]

\* C16: the lines written are, in order, those of the reads seen whose
\* raw length is at least MinReadLength; each carries the raw sequence
\* with X for every byte other than A, T, G, C, cut to MaxReadLength, so
\* it is over {A, T, G, C, X} and no longer than MaxReadLength.
C16_PrepReads ==
    prPc # "idle" =>
        LET kept == SelectSeq(PrSeenRaw, LAMBDA raw : Len(raw) >= config.MinReadLength)
        IN /\ Len(prOut) = Len(kept)
           /\ \A j \in 1..Len(prOut) :
                 LET seq == SplitTab(prOut[j])[1]
                 IN /\ seq = PrNormal(kept[j])
                    /\ Len(seq) <= config.MaxReadLength
                    /\ \A i \in 1..Len(seq) : seq[i] \in {chA, chT, chG, chC, chX}

\* A read too short was skipped, and a read longer than MaxReadLength
\* with a byte that is no base was written, cut and with an X.
C16_Witness ==
    /\ prPc = "done"
    /\ nskip = 1
    /\ Len(prOut) = 1
    /\ \E r \in 1..Len(PrSeenRaw) :
          /\ Len(PrSeenRaw[r]) > config.MaxReadLength
          /\ \E i \in 1..config.MaxReadLength : PrSeenRaw[r][i] = chN
    /\ \E i \in 1..config.MaxReadLength : SplitTab(prOut[1])[1][i] = chX

\* ---- C17 ---------------------------------------------------------------

\* C17: when muscato_uniqify is done, the side record's total is the
\* number of input lines and its unique count the number of records
\* written.
C17_SideRecordCounts ==
    uqPc = "done" =>
        /\ seqinfo.NumTotal = Len(uqInput)
        /\ seqinfo.NumUnique = Len(uqOut)

\* ---- C18 ---------------------------------------------------------------

\* The scan of the targets has begun.
Scanning == scPc \in {"search", "done", "panic"}

\* C18: no bitset is written by more than one worker; once the scan of
\* the targets has begun every insertion has been made, no sequence waits
\* for a worker and no worker runs, so every bitset is the finished filter
\* of its window and never gains a bit.
C18_SingleWriterThenReaders ==
    bbWriters # <<>> =>
        /\ \A b \in 1..Len(bbWriters) : Cardinality(bbWriters[b]) <= 1
        /\ Scanning =>
              /\ bbRest = <<>>
              /\ \A k \in 1..Len(wc) : wc[k] = <<>> /\ bbWorker[k] = "done"
              /\ \A k \in 1..Len(smp) : smp[k] = buildBloom(k)

\* Two workers have each written their own bitset, and the worker of a
\* target has sent a hit found in them.
C18_Witness ==
    /\ scPc = "search"
    /\ Len(bbWriters) = 2
    /\ bbWriters[1] = {1} /\ bbWriters[2] = {2}
    /\ \E k \in 1..Len(hitchan) : hitchan[k] # <<>>

\* ---- C19 ---------------------------------------------------------------

\* C19: in the candidate stream of every window, of two hits of one
\* target the earlier one has the smaller position.
C19_TargetHitsInOrder ==
    \A k \in 1..Len(bmatch) :
        \A i, j \in 1..Len(bmatch[k]) :
            (i < j /\ HtTarget(bmatch[k][i]) = HtTarget(bmatch[k][j])) =>
                HtPos(bmatch[k][i]) < HtPos(bmatch[k][j])

\* The stream of a window holds two hits of one target with a hit of the
\* other target between them.
C19_Witness ==
    \E k \in 1..Len(bmatch) :
        \E i, j, l \in 1..Len(bmatch[k]) :
            /\ i < l /\ l < j
            /\ HtTarget(bmatch[k][i]) = HtTarget(bmatch[k][j])
            /\ HtTarget(bmatch[k][l]) # HtTarget(bmatch[k][i])
            /\ psRun # {}

\* ---- C20 ---------------------------------------------------------------

\* The muscato_confirm processes running.
CoRunning == {k \in 1..Len(coProc) : coProc[k] = "running"}

SeBlocked ==
    /\ scPc = "search"
    /\ scTodo = {} \/ scLimit = screenConcurrency
    /\ psRun # {}
    /\ psRun \subseteq seFail
    /\ Len(errc) = screenConcurrency

\* C21: once a worker has met an error the search does not end normally
\* and does not block, and the error it ends the program with is the
\* first one sent.
C21_FirstErrorFatal ==
    /\ (scPc = "done" => seFail = {})
    /\ (scPc = "fatal" => seFatal = seFirst /\ seFirst # <<>>)
    /\ ~SeBlocked

\* The reverse strand of a written line: the bases in reverse order, A and
\* T exchanged, G and C exchanged, every other byte as it is.
ReverseStrand(seq) ==
    [i \in 1..Len(seq) |->
        LET x == seq[Len(seq) + 1 - i]
        IN IF x = chA THEN chT
           ELSE IF x = chT THEN chA
           ELSE IF x = chG THEN chC
           ELSE IF x = chC THEN chG
           ELSE x]

\* C22: the k-th sequence line and the k-th id line of muscato_prep_targets
\* belong to the same target: the id line is the zero-based serial k as 11
\* zero-padded digits, a name, and the length of the k-th sequence line;
\* with -rev every target is immediately followed by its reverse strand,
\* whose name is the target's name with the suffix _r and whose serial is
\* the next one; for text and for FASTA input.
C22_AlignedIdLines ==
    /\ Len(seqout) = Len(idout)
    /\ ptLnum = Len(idout)
    /\ \A k \in 1..Len(idout) :
         LET toks == SplitTab(idout[k])
         IN /\ Len(toks) = 3
            /\ toks[1] = ZeroPad(Itoa(k - 1), 11)
            /\ toks[3] = Itoa(Len(seqout[k]))
    /\ ptRev =>
         /\ Len(idout) % 2 = 0
         /\ \A k \in 1..Len(idout) :
              k % 2 = 0 =>
                 /\ SplitTab(idout[k])[2] = SplitTab(idout[k - 1])[2] \o SuffixR
                 /\ seqout[k] = ReverseStrand(seqout[k - 1])

\* C23: every sequence line muscato_prep_targets writes consists only of
\* the bytes A, T, G, C and X, for text and for FASTA input, with or
\* without -rev.
C23_OnlyATGCX ==
    \A k \in 1..Len(seqout) : Range(seqout[k]) \subseteq {chA, chT, chG, chC, chX}

\* The sequences of the records of the non-match FASTQ file.
NmWritten == {nmOut[4 * j - 2] : j \in 1..(Len(nmOut) \div 4)}
NmReadSeqs == {Fields(nmReads[i])[1] : i \in 1..Len(nmReads)}
NmMatched == {Fields(nmResults[i])[1] : i \in 1..Len(nmResults)}

\* C24: once muscato_nonmatch has ended, the non-match FASTQ file holds
\* every read of the read table whose sequence is not the read sequence of
\* any line of the results file, and no read whose sequence is.
C24_NonmatchExact ==
    nmPc = "done" => NmWritten = NmReadSeqs \ NmMatched

\* The result lines the three files stand for: a match, the id file line
\* of its target and the read table line of its read.
JnExpected ==
    {JoinTab(SubSeq(SplitTab(matchesSg[i]), 1, 4)
             \o SubSeq(SplitTab(geneIdFile[g]), 2, 3)
             \o SubSeq(SplitTab(readTable[r]), 2, 3)) :
        <<i, g, r>> \in
          {x \in (1..Len(matchesSg)) \X (1..Len(geneIdFile)) \X (1..Len(readTable)) :
              /\ SplitTab(geneIdFile[x[2]])[1] = SplitTab(matchesSg[x[1]])[5]
              /\ SplitTab(readTable[x[3]])[1] = SplitTab(matchesSg[x[1]])[1]}}

\* C25: every line of the results file has exactly 8 tab-separated
\* columns: read sequence, aligned target, target offset, mismatches of a
\* match, then name and length of its target, then multiplicity and name
\* list of its read; the target id the first join was made on is not among
\* them.
C25_EightColumns ==
    jnPc = "done" =>
       /\ \A i \in 1..Len(results) : Len(SplitTab(results[i])) = 8
       /\ Range(results) = JnExpected
       /\ Len(results) = Cardinality(JnExpected)

C25_Witness ==
    /\ jnPc = "done"
    /\ Len(results) >= 3
    /\ \E i, j \in 1..Len(results) :
          SplitTab(results[i])[5] # SplitTab(results[j])[5]

\* C26: CountDinuc returns the number of distinct ordered adjacent pairs of
\* the window over the classes A, T, G, C and other, whatever the scratch
\* array held before the call.
C26_DinucOfWindowOnly ==
    cdCalls > 0 => cdRet = DistinctPairs(cdSeq)

\* A second call whose scratch array holds the counts of a first call that
\* saw the same pair.
C26_Witness ==
    /\ cdCalls = 2
    /\ cdSeq = <<chA, chN, chA>>
    /\ cdRet = 2

\* C27: consolidation is idempotent: a run of muscato_combine_windows over
\* the stream a run has written writes the same stream again (the first
\* conjunct ties the second run to the first: both are the same program).
C27_ConsolidationIdempotent ==
    cwPc = "done" =>
       /\ CombineWindows(cwPool, config.MMTol) = cwOut
       /\ CombineWindows(cwOut, config.MMTol) = cwOut

\* A run that dropped a line of a read and kept two others of it.
C27_Witness ==
    /\ cwPc = "done"
    /\ Len(SortUnique(cwPool)) = 3
    /\ Len(cwOut) = 2
    /\ Fields(cwOut[1])[1] = Fields(cwOut[2])[1]

\* C28: once the cancel signal is raised every worker stops at its next
\* channel send: no worker of the scan sends a hit after the signal.
C28_NoSendAfterCancel ==
    [][cancelRaised =>
          \A w \in 1..Len(hitchan) : Len(hitchan'[w]) <= Len(hitchan[w])]_vars

\* The keys of the lines of a stream, and the lines of one key in order.
KeysOfLines(lines) == {SplitTab(lines[i])[1] : i \in 1..Len(lines)}
BlockOfKey(lines, key) == SelectSeq(lines, LAMBDA l : SplitTab(l)[1] = key)
LineKey(line) == SplitTab(line)[1]
BufsOf(recs) == [j \in 1..Len(recs) |-> recs[j].buf]
MergeOver == cfPc \in {"shutdown", "wait", "exit", "crash"}

\* C29: for two streams sorted by window key the merge loop starts a worker
\* exactly once for every key that both streams hold, on the complete
\* block of the key in each stream, and never for a key that only one
\* stream holds.
C29_OneWorkerPerCommonKey ==
    (/\ cfWin = 1
     /\ KeySorted(winSorted[1], LineKey)
     /\ KeySorted(smatch[1], LineKey)) =>
       LET common == KeysOfLines(winSorted[1]) \cap KeysOfLines(smatch[1])
           keyOf(w) == workers[w].source[1].fields[1]
       IN /\ \A w \in 1..Len(workers) :
               /\ keyOf(w) \in common
               /\ BufsOf(workers[w].source) = BlockOfKey(winSorted[1], keyOf(w))
               /\ BufsOf(workers[w].match) = BlockOfKey(smatch[1], keyOf(w))
               /\ \A v \in 1..Len(workers) : keyOf(v) = keyOf(w) => v = w
          /\ MergeOver => {keyOf(w) : w \in 1..Len(workers)} = common

\* The merge loop is over and has started one worker, on a reads-block of
\* two records, while one stream held a key the other did not.
C29_Witness ==
    /\ MergeOver
    /\ Len(workers) = 1
    /\ Len(workers[1].source) = 2
    /\ KeysOfLines(smatch[1]) # KeysOfLines(winSorted[1])
    /\ KeySorted(winSorted[1], LineKey)
    /\ KeySorted(smatch[1], LineKey)

\* The lines of a sequence of blocks, one block after the other.
RECURSIVE ConcatBlocks(_)
ConcatBlocks(bs) == IF bs = <<>> THEN <<>> ELSE Head(bs) \o ConcatBlocks(Tail(bs))

\* The blocks noted so far, the stashed record and the lines not yet
\* scanned make up the file, in its order: every record read is in exactly
\* one block and the stashed record is the first one of the next block.
BrPartition ==
    ConcatBlocks(brBlocks) \o BufsOf(brB.stash) \o brB.scanner = brInput

\* A block is a run of records with the same key, not empty unless the
\* file is; it is maximal: the record after it has another key.
BrMaximalRuns ==
    /\ \A k \in 1..Len(brBlocks) :
          /\ \A i, j \in 1..Len(brBlocks[k]) : LineKey(brBlocks[k][i]) = LineKey(brBlocks[k][j])
          /\ brBlocks[k] = <<>> => brInput = <<>>
    /\ \A k \in 1..(Len(brBlocks) - 1) :
          LineKey(brBlocks[k][1]) # LineKey(brBlocks[k + 1][1])
    /\ (brB.stash # <<>> /\ brBlocks # <<>>) =>
          LineKey(brB.stash[1].buf) # LineKey(brBlocks[Len(brBlocks)][1])
    /\ (brB.stash = <<>> /\ brBlocks # <<>>) => brB.scanner = <<>>

\* The block b.recs holds is the last one noted; at the end of the file
\* nothing is left over.
BrReadable ==
    /\ brBlocks # <<>> => BufsOf(brB.recs) = brBlocks[Len(brBlocks)]
    /\ brB.done => brB.scanner = <<>> /\ brB.stash = <<>> /\ brBlocks # <<>>

CountIn(seq, x) == Cardinality({i \in 1..Len(seq) : seq[i] = x})

\* Everything the workers started so far have to send.
RECURSIVE SentByWorkers(_)
SentByWorkers(n) ==
    IF n = 0 THEN <<>>
    ELSE SentByWorkers(n - 1) \o searchpairs(workers[n].source, workers[n].match)

\* C31: muscato_confirm closes the result channel only after every worker
\* it started has finished sending, so nothing is ever sent on the closed
\* channel; and it ends only after the writer has written every record
\* sent, so the output file holds every confirmed match.
C31_OrderlyShutdown ==
    /\ [](rsltClosed => \A w \in 1..Len(workers) : workers[w].state = "done")
    /\ [][rsltClosed => Len(rsltChan') <= Len(rsltChan)]_vars
    /\ [](cfPc \in {"exit", "crash"} =>
             /\ rsltChan = <<>>
             /\ Len(rmatch[1]) = Len(SentByWorkers(Len(workers)))
             /\ \A x \in Range(SentByWorkers(Len(workers))) :
                   CountIn(rmatch[1], x) = CountIn(SentByWorkers(Len(workers)), x))

\* The process has ended after two workers sent their matches.
C31_Witness ==
    /\ cfPc = "exit"
    /\ Len(workers) = 2
    /\ Len(rmatch[1]) >= 2
    /\ cfFill = concurrency

\* C32: when the stream of windowed reads or the stream of candidate hits
\* of the window is empty, muscato_confirm ends normally with an empty
\* verified stream: main never panics and the process does not end in a
\* crash.
C32_EmptyStreamEndsNormally ==
    (winSorted[1] = <<>> \/ smatch[1] = <<>>) =>
        /\ ~cfPanic
        /\ cfPc # "crash"
        /\ rmatch[1] = <<>>

\* The lines of the hits the workers of targets 1..n send for window k.
RECURSIVE HitLinesSent(_, _)
HitLinesSent(n, k) ==
    IF n = 0 THEN <<>>
    ELSE LET sends == processSends(SplitTab(geneFile[n])[1], n - 1)
             mine == SelectSeq(sends, LAMBDA e : e.win = k)
         IN HitLinesSent(n - 1, k) \o [i \in 1..Len(mine) |-> HitLine(mine[i].rec)]

\* C33: the hit channels are closed only when every scan worker has
\* finished, nothing is sent on a closed channel, and search returns only
\* when the writer of every window has emptied its channel and ended; the
\* file of window k then holds every hit sent for k exactly once, as the
\* line of that hit.
C33_EveryHitWrittenOnce ==
    /\ [](hitClosed => psRun = {} /\ scTodo = {})
    /\ [][hitClosed =>
             \A k \in 1..Len(hitchan) : Len(hitchan'[k]) <= Len(hitchan[k])]_vars
    /\ [](scPc = "done" =>
             /\ hvDone = 1..Len(hitchan)
             /\ \A k \in 1..Len(hitchan) :
                   /\ hitchan[k] = <<>>
                   /\ Len(bmatch[k]) = Len(HitLinesSent(Len(geneFile), k))
                   /\ \A x \in Range(bmatch[k]) :
                         CountIn(bmatch[k], x) = CountIn(HitLinesSent(Len(geneFile), k), x))

\* search has returned and the files of two windows hold hits, one of them
\* hits of both targets.
C33_Witness ==
    /\ scPc = "done"
    /\ Len(bmatch) = 2
    /\ bmatch[1] # <<>> /\ bmatch[2] # <<>>
    /\ \E i, j \in 1..Len(bmatch[1]) : HtTarget(bmatch[1][i]) # HtTarget(bmatch[1][j])
    /\ srFill = screenConcurrency

\* What a reader has left to do: its unread lines, and the call that finds
\* the end of the file.
Remaining(b) == Len(b.scanner) + (IF b.done THEN 0 ELSE 1)

\* A step of main that ends an iteration of the merge loop and begins the
\* next one.
LoopIterated ==
    /\ cfPc = "loop" /\ cfPc' = "loop"
    /\ (<<source, match>>' # <<source, match>> \/ Len(workers') > Len(workers))

\* C34: with two non-empty streams muscato_confirm ends.  An iteration
\* that stays in the merge loop moves a reader on; every token of limit
\* belongs to a worker that has not returned or to the deferred call, so a
\* returned worker holds none; and the process reaches its end, the
\* deferred call done.
C34_ConfirmTerminates ==
    /\ [][LoopIterated =>
             Remaining(source') + Remaining(match') < Remaining(source) + Remaining(match)]_vars
    /\ [](limit = Cardinality(RunningWorkers) + cfFill)
    /\ (cfPc = "start" /\ winSorted[1] # <<>> /\ smatch[1] # <<>>)
          ~> (cfPc \in {"exit", "crash"} /\ hvPc = "done" /\ RunningWorkers = {})

\* The process has ended after both streams of two lines or more were
\* read to their ends and a worker was started.
C34_Witness ==
    /\ cfPc = "exit"
    /\ Len(winSorted[1]) >= 2 /\ Len(smatch[1]) >= 2
    /\ source.scanner = <<>> /\ match.scanner = <<>>
    /\ workers # <<>>
    /\ hvPc = "done"

\* C35: the two blocks a worker of muscato_confirm finds behind the slices
\* it was given are the blocks the readers held when it was started, at
\* every moment from the dispatch on and whatever main has read since;
\* what a worker has read is that pair of blocks.
C35_WorkerBlocksAreCopies ==
    \A w \in 1..Len(cpWorkers) :
        /\ <<Deref(cpWorkers[w].src), Deref(cpWorkers[w].mat)>> = cpWorkers[w].disp
        /\ cpWorkers[w].state # "run" => cpWorkers[w].seen = cpWorkers[w].disp

\* A worker has read its blocks after Next has written another block into
\* the array that held the reads-block at its dispatch.
C35_Witness ==
    \E w \in 1..Len(cpWorkers) :
        /\ cpWorkers[w].state = "read"
        /\ cpWorkers[w].src.from = cpCur["source"]
        /\ SubSeq(cpArrs[cpWorkers[w].src.from], 1, cpWorkers[w].src.len) # cpWorkers[w].disp[1]
        /\ cpWorkers[w].seen = cpWorkers[w].disp

\* The least of the numbers in the non-empty sequence seq.
MinOf(seq) == CHOOSE x \in Range(seq) : \A y \in Range(seq) : x <= y

\* C36: in best mode, after any number of insertions for a key the queue
\* is not empty and holds a match with the least mismatch count of all the
\* matches inserted.
C36_BestKeepsMinimum ==
    hqAll # <<>> =>
        /\ hqQ # <<>>
        /\ \E i \in 1..Len(hqQ) : hqQ[i].mismatch = MinOf(hqAll)

\* More matches than MaxMatches were inserted and the last one has fewer
\* mismatches than every match before it.
C36_Witness ==
    /\ Len(hqAll) > config.MaxMatches + 1
    /\ \A i \in 1..(Len(hqAll) - 1) : hqAll[Len(hqAll)] < hqAll[i]
    /\ hqQ[1].mismatch = hqAll[Len(hqAll)]

\* C38: in best mode the queue holds at most MaxMatches entries and the
\* entry with the most mismatches of the queue is at its root.
C38_WorstAtRoot ==
    /\ Len(hqQ) <= config.MaxMatches
    /\ \A i \in 1..Len(hqQ) : hqQ[1].mismatch >= hqQ[i].mismatch

\* C37: once muscato_window_reads has ended and muscato_screen has built
\* its filters, for every window the keys sent to the filter are the keys
\* of the records of the window's stream, and every key of a record has
\* all its bits in the filter.
C37_BloomKeysAreStreamKeys ==
    (wrPc = "done" /\ stage = "screen" /\ scPc = "search") =>
        \A k \in 1..Len(config.Windows) :
            /\ BloomKeys(k) = KeysOfLines(winFile[k])
            /\ \A key \in KeysOfLines(winFile[k]) : BloomBits(key) \subseteq smp[k]

\* The filters are built, two reads were windowed, and a window took the
\* key of one read and not of the other, whose window the entropy gate
\* turned down.
C37_Witness ==
    /\ wrPc = "done" /\ stage = "screen" /\ scPc = "search"
    /\ Len(readTable) = 2
    /\ \E k \in 1..Len(config.Windows) :
          /\ Len(winFile[k]) = 1
          /\ nread[k] = 2
          /\ smp[k] # {}

====
